---- MODULE Spec2Model ----
(***************************************************************************)
(* Verification model of the research agent's claim-verification pipeline  *)
(* (src/src/agents/research_agent/research_agent.py):                      *)
(*   - aggregate_evaluations   (pure function, binary64 arithmetic)        *)
(*   - llm_call_with_retry     (retry loop with backoff)                   *)
(*   - run_research_pipeline   (search, fetch, extract, limit, verify in   *)
(*                              a worker pool, aggregate, render)          *)
(***************************************************************************)
EXTENDS Integers, Sequences, FiniteSets, TLC

(***************************************************************************)
(* Python floats are IEEE-754 binary64.  A finite float is modelled        *)
(* exactly, as sign and magnitude, the magnitude a fixed-point natural     *)
(* number counted in units of 2^-FracBits and held in NumLimbs limbs of    *)
(* LimbBits bits, least significant first.  Every float the aggregation    *)
(* can produce from the inputs below is a multiple of the unit, so the     *)
(* fixed-point value is the float and rounding is done where the code      *)
(* rounds: to MantBits significant bits, ties to even.                     *)
(***************************************************************************)
MantBits == 53
LimbBits == 20
FracLimbs == 6
NumLimbs == FracLimbs + 1
LimbBase == 2 ^ LimbBits
FracBits == FracLimbs * LimbBits

Limbs == 1..NumLimbs

BZero == [i \in Limbs |-> 0]

\* the natural number n (< LimbBase) as a fixed-point integer value
BInt(n) == [i \in Limbs |-> IF i = NumLimbs THEN n ELSE 0]

RECURSIVE BAddFrom(_, _, _, _)
BAddFrom(a, b, i, carry) ==
    IF i > NumLimbs THEN <<>>
    ELSE LET s == a[i] + b[i] + carry
         IN  <<s % LimbBase>> \o BAddFrom(a, b, i + 1, s \div LimbBase)

BAdd(a, b) == BAddFrom(a, b, 1, 0)

RECURSIVE BSubFrom(_, _, _, _)
BSubFrom(a, b, i, borrow) ==
    IF i > NumLimbs THEN <<>>
    ELSE LET d == a[i] - b[i] - borrow
         IN  IF d < 0 THEN <<d + LimbBase>> \o BSubFrom(a, b, i + 1, 1)
                      ELSE <<d>> \o BSubFrom(a, b, i + 1, 0)

\* a - b for a >= b
BSub(a, b) == BSubFrom(a, b, 1, 0)

RECURSIVE BCmpFrom(_, _, _)
BCmpFrom(a, b, i) ==
    IF i = 0 THEN 0
    ELSE IF a[i] > b[i] THEN 1
    ELSE IF a[i] < b[i] THEN -1
    ELSE BCmpFrom(a, b, i - 1)

\* -1, 0, 1 as a < b, a = b, a > b
BCmp(a, b) == BCmpFrom(a, b, NumLimbs)

RECURSIVE IntBitLen(_)
IntBitLen(n) == IF n = 0 THEN 0 ELSE 1 + IntBitLen(n \div 2)

RECURSIVE BitLenFrom(_, _)
BitLenFrom(a, i) ==
    IF i = 0 THEN 0
    ELSE IF a[i] # 0 THEN (i - 1) * LimbBits + IntBitLen(a[i])
    ELSE BitLenFrom(a, i - 1)

\* number of significant bits of a (0 for zero)
BitLen(a) == BitLenFrom(a, NumLimbs)

\* bit k (k = 0 is the least significant)
Bit(a, k) == (a[(k \div LimbBits) + 1] \div (2 ^ (k % LimbBits))) % 2

\* some bit strictly below bit k is set
LowNonzero(a, k) ==
    \/ \E i \in 1..(k \div LimbBits) : a[i] # 0
    \/ a[(k \div LimbBits) + 1] % (2 ^ (k % LimbBits)) # 0

\* a with the bits below bit k cleared
ClearLow(a, k) ==
    [i \in Limbs |->
        IF i <= k \div LimbBits THEN 0
        ELSE IF i = (k \div LimbBits) + 1
             THEN a[i] - (a[i] % (2 ^ (k % LimbBits)))
        ELSE a[i]]

BPow2(k) == [i \in Limbs |-> IF i = (k \div LimbBits) + 1 THEN 2 ^ (k % LimbBits) ELSE 0]

\* a + rest (rest > 0 iff sticky, rest below one unit) rounded to MantBits
\* significant bits, ties to even
RoundMant(a, sticky) ==
    LET len == BitLen(a)
    IN  IF len <= MantBits THEN a
        ELSE LET s     == len - MantBits
                 guard == Bit(a, s - 1)
                 low   == sticky \/ LowNonzero(a, s - 1)
                 up    == guard = 1 /\ (low \/ Bit(a, s) = 1)
                 t     == ClearLow(a, s)
             IN  IF up THEN BAdd(t, BPow2(s)) ELSE t

RECURSIVE BDivFrom(_, _, _)
BDivFrom(a, c, i) ==
    IF i > NumLimbs THEN [q |-> <<>>, r |-> 0]
    ELSE LET hi  == BDivFrom(a, c, i + 1)
             cur == hi.r * LimbBase + a[i]
         IN  [q |-> <<cur \div c>> \o hi.q, r |-> cur % c]

\* quotient and remainder of a by the small integer c (0 < c <= 1000)
BDivSmall(a, c) == BDivFrom(a, c, 1)

RECURSIVE BMulFrom(_, _, _, _)
BMulFrom(a, c, i, carry) ==
    IF i > NumLimbs THEN <<>>
    ELSE LET p == a[i] * c + carry
         IN  <<p % LimbBase>> \o BMulFrom(a, c, i + 1, p \div LimbBase)

\* a * c for a small integer c (0 <= c <= 1000), the product within NumLimbs
BMulSmall(a, c) == BMulFrom(a, c, 1, 0)

(***************************************************************************)
(* Floats: k is "fin", "inf" or "nan"; neg the sign; mag the magnitude.    *)
(* Zero is kept unsigned (-0.0 compares and adds as 0.0 everywhere here).  *)
(***************************************************************************)
FFin(neg, mag) == [k |-> "fin", neg |-> (neg /\ mag # BZero), mag |-> mag]
FNaN == [k |-> "nan", neg |-> FALSE, mag |-> BZero]
FInf(neg) == [k |-> "inf", neg |-> neg, mag |-> BZero]
FZero == FFin(FALSE, BZero)
FOne == FFin(FALSE, BInt(1))

FIsZero(x) == x.k = "fin" /\ x.mag = BZero

\* the float nearest to m / 10^3, as float("0.52") or a JSON number gives it
FloatOfMilli(m) ==
    LET a == IF m < 0 THEN -m ELSE m
        d == BDivSmall(BInt(a), 1000)
    IN  FFin(m < 0, RoundMant(d.q, d.r # 0))

FNeg(x) == IF x.k = "nan" THEN x ELSE [x EXCEPT !.neg = (~x.neg /\ ~FIsZero(x))]

\* x + y
FAdd(x, y) ==
    IF x.k = "nan" \/ y.k = "nan" THEN FNaN
    ELSE IF x.k = "inf" /\ y.k = "inf" THEN (IF x.neg = y.neg THEN x ELSE FNaN)
    ELSE IF x.k = "inf" THEN x
    ELSE IF y.k = "inf" THEN y
    ELSE IF x.neg = y.neg THEN FFin(x.neg, RoundMant(BAdd(x.mag, y.mag), FALSE))
    ELSE IF BCmp(x.mag, y.mag) >= 0
         THEN FFin(x.neg, RoundMant(BSub(x.mag, y.mag), FALSE))
         ELSE FFin(y.neg, RoundMant(BSub(y.mag, x.mag), FALSE))

\* x / 2 (exact: the magnitudes here have their lowest bit clear)
FHalf(x) == IF x.k = "fin" THEN FFin(x.neg, BDivSmall(x.mag, 2).q) ELSE x

\* x / n for an integer n > 0
FDivInt(x, n) ==
    IF x.k # "fin" THEN x
    ELSE LET d == BDivSmall(x.mag, n) IN FFin(x.neg, RoundMant(d.q, d.r # 0))

\* x < y (False whenever a NaN is compared)
FLess(x, y) ==
    IF x.k = "nan" \/ y.k = "nan" THEN FALSE
    ELSE IF x.k = "inf" THEN x.neg /\ ~(y.k = "inf" /\ y.neg)
    ELSE IF y.k = "inf" THEN ~y.neg
    ELSE IF x.neg /\ ~y.neg THEN TRUE
    ELSE IF ~x.neg /\ y.neg THEN FALSE
    ELSE IF x.neg THEN BCmp(x.mag, y.mag) > 0
    ELSE BCmp(x.mag, y.mag) < 0

\* Python's min(a, b): b if b < a, else a;  max(a, b): b if b > a, else a
PyMin(a, b) == IF FLess(b, a) THEN b ELSE a
PyMax(a, b) == IF FLess(a, b) THEN b ELSE a

\* x * 10^digits rounded to an integer as round(x, digits) and "%.2f" do:
\* the exact binary value is rounded, a true tie going to the even digit.
\* scale = 10^digits; the result is the magnitude, the sign is x.neg
RoundScaled(x, scale) ==
    LET p     == BMulSmall(x.mag, scale)
        whole == p[NumLimbs]
        guard == Bit(p, FracBits - 1)
        low   == LowNonzero(p, FracBits - 1)
        up    == guard = 1 /\ (low \/ whole % 2 = 1)
    IN  IF up THEN whole + 1 ELSE whole

(***************************************************************************)
(* Text helpers (Python str methods used by the aggregation's notes).      *)
(***************************************************************************)
\* F(e), the expression e being evaluated once
With(e, F(_)) == CHOOSE r \in {F(x) : x \in {e}} : TRUE

WsChars == {" ", "\t", "\n", "\r"}

CharAt(s, i) == SubSeq(s, i, i)

RECURSIVE LStrip(_)
LStrip(s) == IF Len(s) > 0 /\ CharAt(s, 1) \in WsChars
             THEN LStrip(SubSeq(s, 2, Len(s))) ELSE s

RECURSIVE RStrip(_)
RStrip(s) == IF Len(s) > 0 /\ CharAt(s, Len(s)) \in WsChars
             THEN RStrip(SubSeq(s, 1, Len(s) - 1)) ELSE s

\* str.strip()
Strip(s) == RStrip(LStrip(s))

\* the least index from i on at which s holds a character of C, Len(s) + 1
\* when there is none
FirstOf(s, i, C) ==
    LET I == {k \in i..Len(s) : CharAt(s, k) \in C}
    IN  IF I = {} THEN Len(s) + 1 ELSE CHOOSE k \in I : \A m \in I : k <= m

\* re.sub(r"\s+", " ", s)
\* the collapsed forms of two adjacent pieces, joined: a run of whitespace
\* that spans the cut gives one space
JoinCollapsed(l, r) ==
    IF Len(l) > 0 /\ Len(r) > 0 /\ CharAt(l, Len(l)) = " " /\ CharAt(r, 1) = " "
    THEN l \o SubSeq(r, 2, Len(r)) ELSE l \o r

RECURSIVE CollapseWs(_)
CollapseWs(s) ==
    IF Len(s) = 0 THEN ""
    ELSE IF Len(s) = 1 THEN (IF s \in WsChars THEN " " ELSE s)
    ELSE IF FirstOf(s, 1, WsChars) > Len(s) THEN s
    ELSE LET h == Len(s) \div 2
         IN  With(CollapseWs(SubSeq(s, 1, h)),
                  LAMBDA l : With(CollapseWs(SubSeq(s, h + 1, Len(s))),
                                  LAMBDA r : JoinCollapsed(l, r)))

UpperChars == "ABCDEFGHIJKLMNOPQRSTUVWXYZ"
LowerChars == "abcdefghijklmnopqrstuvwxyz"

\* the lower-case letter of each upper-case letter
LowerOf ==
    [c \in {CharAt(UpperChars, i) : i \in 1..Len(UpperChars)} |->
        CharAt(LowerChars, CHOOSE i \in 1..Len(UpperChars) : CharAt(UpperChars, i) = c)]

LowerChar(c) == IF c \in DOMAIN LowerOf THEN LowerOf[c] ELSE c

\* str.lower()
RECURSIVE Lower(_)
Lower(s) ==
    IF Len(s) = 0 THEN ""
    ELSE IF Len(s) = 1 THEN LowerChar(s)
    ELSE LET h == Len(s) \div 2
         IN  Lower(SubSeq(s, 1, h)) \o Lower(SubSeq(s, h + 1, Len(s)))

\* sub in s
Contains(s, sub) ==
    \E i \in 1..(Len(s) - Len(sub) + 1) : SubSeq(s, i, i + Len(sub) - 1) = sub

\* s.startswith(pre)
StartsWith(s, pre) == Len(s) >= Len(pre) /\ SubSeq(s, 1, Len(pre)) = pre

\* "%02d" of 0..99
TwoDigits(n) == ToString(n \div 10) \o ToString(n % 10)

\* f"{conf:.2f}"
Format2f(x) ==
    IF x.k = "nan" THEN "nan"
    ELSE IF x.k = "inf" THEN (IF x.neg THEN "-inf" ELSE "inf")
    ELSE LET c == RoundScaled(x, 100)
         IN  (IF x.neg THEN "-" ELSE "") \o ToString(c \div 100) \o "." \o TwoDigits(c % 100)

\* s[:n]
Prefix(s, n) == SubSeq(s, 1, IF n < Len(s) THEN n ELSE Len(s))

SanitizeClip == 500
ReasonClip == 200
EvidenceClip == 200

\* the least and the greatest index at which sub occurs in s, 0 when none
FirstIndex(s, sub) ==
    LET I == {i \in 1..(Len(s) - Len(sub) + 1) : SubSeq(s, i, i + Len(sub) - 1) = sub}
    IN  IF I = {} THEN 0 ELSE CHOOSE i \in I : \A j \in I : i <= j

LastIndex(s, sub) ==
    LET I == {i \in 1..(Len(s) - Len(sub) + 1) : SubSeq(s, i, i + Len(sub) - 1) = sub}
    IN  IF I = {} THEN 0 ELSE CHOOSE i \in I : \A j \in I : i >= j

\* s[i:].startswith(lit)
StartsWithAt(s, i, lit) ==
    i + Len(lit) - 1 <= Len(s) /\ SubSeq(s, i, i + Len(lit) - 1) = lit

Digits == "0123456789"
IsDigit(c) == Len(c) = 1 /\ FirstIndex(Digits, c) > 0

RECURSIVE SkipDigits(_, _)
SkipDigits(s, i) ==
    IF i <= Len(s) /\ IsDigit(CharAt(s, i)) THEN SkipDigits(s, i + 1) ELSE i

RECURSIVE SkipWs(_, _)
SkipWs(s, i) ==
    IF i <= Len(s) /\ CharAt(s, i) \in WsChars THEN SkipWs(s, i + 1) ELSE i

(***************************************************************************)
(* json.loads, for the texts the model below is applied to: an object      *)
(* whose values are strings (with the escapes \" \\ \/ only), decimal      *)
(* numbers without exponent, true, false or null.  Any other text is not   *)
(* an object: both callers treat a parse error and a parsed value that has *)
(* no .get alike (the except branch).  A parsed object is the sequence of  *)
(* its <<key, value>> pairs, a value being [t |-> type, s |-> text].       *)
(***************************************************************************)
JFail == [ok |-> FALSE, obj |-> <<>>]
JMissing == [t |-> "missing", s |-> ""]

\* the string whose opening quote is before position i
RECURSIVE ScanString(_, _, _)
ScanString(s, i, acc) ==
    LET k   == FirstOf(s, i, {"\"", "\\", "\n", "\t", "\r"})
        run == acc \o SubSeq(s, i, k - 1)
    IN  IF k > Len(s) THEN [ok |-> FALSE, val |-> "", next |-> k]
        ELSE IF CharAt(s, k) = "\"" THEN [ok |-> TRUE, val |-> run, next |-> k + 1]
        ELSE IF CharAt(s, k) = "\\" /\ k < Len(s)
                /\ CharAt(s, k + 1) \in {"\"", "\\", "/"}
        THEN ScanString(s, k + 2, run \o CharAt(s, k + 1))
        ELSE [ok |-> FALSE, val |-> "", next |-> k]

ScanNumber(s, i) ==
    LET a == IF CharAt(s, i) = "-" THEN i + 1 ELSE i
        b == SkipDigits(s, a)
        c == IF b < Len(s) /\ CharAt(s, b) = "." /\ IsDigit(CharAt(s, b + 1))
             THEN SkipDigits(s, b + 1) ELSE b
    IN  IF b = a \/ (b > a + 1 /\ CharAt(s, a) = "0")
        THEN [ok |-> FALSE, v |-> JMissing, next |-> i]
        ELSE [ok |-> TRUE, v |-> [t |-> "num", s |-> SubSeq(s, i, c - 1)], next |-> c]

ScanValue(s, i) ==
    IF i > Len(s) THEN [ok |-> FALSE, v |-> JMissing, next |-> i]
    ELSE IF CharAt(s, i) = "\""
    THEN LET r == ScanString(s, i + 1, "")
         IN  [ok |-> r.ok, v |-> [t |-> "str", s |-> r.val], next |-> r.next]
    ELSE IF StartsWithAt(s, i, "null")
    THEN [ok |-> TRUE, v |-> [t |-> "null", s |-> ""], next |-> i + 4]
    ELSE IF StartsWithAt(s, i, "true")
    THEN [ok |-> TRUE, v |-> [t |-> "bool", s |-> "True"], next |-> i + 4]
    ELSE IF StartsWithAt(s, i, "false")
    THEN [ok |-> TRUE, v |-> [t |-> "bool", s |-> "False"], next |-> i + 5]
    ELSE IF IsDigit(CharAt(s, i)) \/ CharAt(s, i) = "-"
    THEN ScanNumber(s, i)
    ELSE [ok |-> FALSE, v |-> JMissing, next |-> i]

\* the members of an object, a key being expected at or after position i
RECURSIVE ScanMembers(_, _, _)
ScanMembers(s, i, acc) ==
    LET k0 == SkipWs(s, i)
    IN  IF ~(k0 <= Len(s) /\ CharAt(s, k0) = "\"") THEN JFail
        ELSE LET k  == ScanString(s, k0 + 1, "")
                 c0 == SkipWs(s, k.next)
             IN  IF ~k.ok \/ ~(c0 <= Len(s) /\ CharAt(s, c0) = ":") THEN JFail
                 ELSE LET v == ScanValue(s, SkipWs(s, c0 + 1))
                          e == SkipWs(s, v.next)
                      IN  IF ~v.ok \/ e > Len(s) THEN JFail
                          ELSE IF CharAt(s, e) = ","
                          THEN ScanMembers(s, e + 1, Append(acc, <<k.val, v.v>>))
                          ELSE IF CharAt(s, e) = "}"
                          THEN [ok |-> SkipWs(s, e + 1) > Len(s),
                                obj |-> Append(acc, <<k.val, v.v>>)]
                          ELSE JFail

\* json.loads(s) when the result is an object
JsonLoads(s) ==
    LET a == SkipWs(s, 1)
    IN  IF ~(a <= Len(s) /\ CharAt(s, a) = "{") THEN JFail
        ELSE LET b == SkipWs(s, a + 1)
             IN  IF b <= Len(s) /\ CharAt(s, b) = "}"
                 THEN [ok |-> SkipWs(s, b + 1) > Len(s), obj |-> <<>>]
                 ELSE ScanMembers(s, a + 1, <<>>)

\* j.get(key): the last member of that name wins
JGet(obj, key) ==
    LET I == {i \in 1..Len(obj) : obj[i][1] = key}
    IN  IF I = {} THEN JMissing ELSE obj[CHOOSE i \in I : \A j \in I : i >= j][2]

\* v is None
JIsNone(v) == v.t \in {"missing", "null"}

\* the number literal is zero
NumIsZero(lit) == \A i \in 1..Len(lit) : CharAt(lit, i) \in {"0", ".", "-"}

\* bool(v)
JTruthy(v) ==
    IF v.t = "str" THEN v.s # ""
    ELSE IF v.t = "num" THEN ~NumIsZero(v.s)
    ELSE v.t = "bool" /\ v.s = "True"

\* str(v) (number literals are written the way Python prints them)
PyStr(v) == IF JIsNone(v) THEN "None" ELSE v.s

RECURSIVE DigitsValue(_, _, _, _)
DigitsValue(s, i, j, acc) ==
    IF i > j THEN acc
    ELSE DigitsValue(s, i + 1, j, 10 * acc + (FirstIndex(Digits, CharAt(s, i)) - 1))

\* lit is a decimal literal with at most three decimals
IsDecimal(lit) ==
    LET a == IF Len(lit) > 0 /\ CharAt(lit, 1) = "-" THEN 2 ELSE 1
        b == SkipDigits(lit, a)
        c == IF b <= Len(lit) /\ CharAt(lit, b) = "." THEN SkipDigits(lit, b + 1) ELSE b
    IN  b > a /\ c > Len(lit) /\ (b > Len(lit) \/ (c > b + 1 /\ c - b - 1 <= 3))

\* the thousandths of a decimal literal
DecimalMilli(lit) ==
    LET a == IF CharAt(lit, 1) = "-" THEN 2 ELSE 1
        b == SkipDigits(lit, a)
        whole == DigitsValue(lit, a, b - 1, 0)
        nfrac == IF b > Len(lit) THEN 0 ELSE Len(lit) - b
        frac  == DigitsValue(lit, b + 1, Len(lit), 0) * (10 ^ (3 - nfrac))
        m == whole * 1000 + frac
    IN  IF a = 2 THEN 0 - m ELSE m

\* float(v): [ok |-> FALSE] stands for ValueError / TypeError
PyFloat(v) ==
    IF v.t = "num" THEN [ok |-> TRUE, f |-> FloatOfMilli(DecimalMilli(v.s))]
    ELSE IF v.t = "bool"
    THEN [ok |-> TRUE, f |-> IF v.s = "True" THEN FOne ELSE FZero]
    ELSE IF v.t = "str" /\ IsDecimal(Strip(v.s))
    THEN [ok |-> TRUE, f |-> FloatOfMilli(DecimalMilli(Strip(v.s)))]
    ELSE IF v.t = "str" /\ Lower(Strip(v.s)) = "nan" THEN [ok |-> TRUE, f |-> FNaN]
    ELSE IF v.t = "str" /\ Lower(Strip(v.s)) \in {"inf", "infinity"}
    THEN [ok |-> TRUE, f |-> FInf(FALSE)]
    ELSE [ok |-> FALSE, f |-> FZero]

\* sep.join(parts)
RECURSIVE Join(_, _)
Join(parts, sep) ==
    IF parts = <<>> THEN ""
    ELSE IF Len(parts) = 1 THEN parts[1]
    ELSE parts[1] \o sep \o Join(Tail(parts), sep)

\* s.replace("\n", " ")
RECURSIVE ReplaceNewlines(_)
ReplaceNewlines(s) ==
    LET k == FirstOf(s, 1, {"\n"})
    IN  IF k > Len(s) THEN s
        ELSE SubSeq(s, 1, k - 1) \o " " \o ReplaceNewlines(SubSeq(s, k + 1, Len(s)))

\* the parts _sanitize_note builds of a parsed block; ok is FALSE when
\* float(confidence) raises, which the inner except swallows
SanitizeParts(j) ==
    LET sup  == JGet(j, "support")
        conf == JGet(j, "confidence")
        rea  == JGet(j, "reason")
        evd  == JGet(j, "evidence")
        ev   == Strip(ReplaceNewlines(PyStr(evd)))
        p1 == IF JIsNone(sup) THEN <<>> ELSE <<"support: " \o PyStr(sup)>>
        p2 == IF JIsNone(conf) THEN <<>>
              ELSE <<"confidence: " \o Format2f(PyFloat(conf).f)>>
        p3 == IF JTruthy(rea) THEN <<"reason: " \o Prefix(PyStr(rea), ReasonClip)>> ELSE <<>>
        p4 == IF JTruthy(evd)
              THEN <<"evidence: " \o Prefix(ev, EvidenceClip)
                        \o (IF Len(ev) > EvidenceClip THEN "..." ELSE "")>>
              ELSE <<>>
    IN  [ok |-> JIsNone(conf) \/ PyFloat(conf).ok, parts |-> p1 \o p2 \o p3 \o p4]

\* re.search(r"%PDF-|<</Filter|stream", s, re.I)
HasBinaryMarker(s) ==
    With(Lower(s), LAMBDA low :
        Contains(low, "%pdf-") \/ Contains(low, "<</filter") \/ Contains(low, "stream"))

\* re.sub(r"\{.*\}", "", s) on a text without line breaks: the text from the
\* first "{" to the last "}" is removed
StripBraces(s) ==
    LET i == FirstIndex(s, "{")
        j == LastIndex(s, "}")
    IN  IF i > 0 /\ j > i THEN SubSeq(s, 1, i - 1) \o SubSeq(s, j + 1, Len(s)) ELSE s

\* the text returned for binary content
BinaryPlaceholder == "Excerpt not available (binary/pdf content)."

\* json.loads of the text from the first "{" to the last "}" of s
BlockOf(s) ==
    LET i == FirstIndex(s, "{")
        j == LastIndex(s, "}")
    IN  IF i > 0 /\ j > i THEN With(SubSeq(s, i, j), JsonLoads) ELSE JFail

\* collapse whitespace, truncate, remove what is left between braces, strip
CleanText(s0) ==
    With(CollapseWs(s0), LAMBDA s :
        With(IF Len(s) > SanitizeClip THEN Prefix(s, SanitizeClip) \o " ..." ELSE s,
             LAMBDA t : Strip(StripBraces(t))))

\* the try block of _sanitize_note, s0 being n.strip()
SanitizeStripped(s0) ==
    With(BlockOf(s0), LAMBDA bl :
        With(IF bl.ok THEN SanitizeParts(bl.obj) ELSE [ok |-> FALSE, parts |-> <<>>],
             LAMBDA sp :
                IF sp.ok /\ sp.parts # <<>> THEN Join(sp.parts, "; ")
                ELSE IF HasBinaryMarker(s0) THEN BinaryPlaceholder
                ELSE CleanText(s0)))

\* _sanitize_note(n) for a str n that holds no backquote (a character the
\* strings of this module cannot hold): the removal of fenced code blocks
\* finds no fence and leaves such a text as it is
SanitizeNote(n) ==
    IF n = "" THEN "" ELSE With(Strip(n), SanitizeStripped)

(***************************************************************************)
(* aggregate_evaluations                                                   *)
(***************************************************************************)
NoteClip == 400
MaxNotes == 6

\* ev.get("support", "uncertain") or "uncertain"   ("" stands for a missing,
\* null or empty label)
SupportOf(ev) == IF ev.support = "" THEN "uncertain" ELSE ev.support

\* float(ev.get("confidence", 0.0) or 0.0), 0.0 when float() raises.
\* A confidence is [t |-> "num", v |-> thousandths], or t = "nan", "inf",
\* "ninf" (float values), "text" (a non-numeric string) or "none"; the float
\* that evaluate_claim_vs_excerpt stored is [t |-> "float", f |-> the float].
ConfOf(ev) ==
    LET c == ev.confidence
    IN  IF c.t = "num" THEN FloatOfMilli(c.v)
        ELSE IF c.t = "float" THEN c.f
        ELSE IF c.t = "nan" THEN FNaN
        ELSE IF c.t = "inf" THEN FInf(FALSE)
        ELSE IF c.t = "ninf" THEN FInf(TRUE)
        ELSE FZero

\* mapping.get(s, 0.0) * conf
SignedScore(s, conf) ==
    IF s = "supports" THEN conf
    ELSE IF s = "neutral" THEN FHalf(conf)
    ELSE IF s = "contradicts" THEN FNeg(conf)
    ELSE IF conf.k = "fin" THEN FZero ELSE FNaN

NoBest == [url |-> "", excerpt |-> "", confidence |-> FZero, present |-> FALSE]

\* best_score = -999
InitBestScore == FFin(TRUE, BInt(999))

AggStart == [total |-> FZero, count |-> 0, best |-> NoBest,
             best_score |-> InitBestScore, human_notes |-> <<>>]

\* ev.get("note") or ev.get("reason") or ""
NoteOf(ev) == IF ev.note # "" THEN ev.note ELSE ev.reason

\* one iteration of "for ev in evaluations"
AggStep(st, ev) ==
    LET s     == SupportOf(ev)
        conf  == ConfOf(ev)
        score == SignedScore(s, conf)
        better == FLess(st.best_score, score)
        note  == NoteOf(ev)
    IN  [total |-> FAdd(st.total, score),
         count |-> st.count + 1,
         best |-> IF better
                  THEN [url |-> ev.url, excerpt |-> ev.evidence,
                        confidence |-> conf, present |-> TRUE]
                  ELSE st.best,
         best_score |-> IF better THEN score ELSE st.best_score,
         human_notes |-> Append(st.human_notes,
                                IF note # "" THEN SanitizeNote(note)
                                ELSE s \o " (confidence " \o Format2f(conf) \o ")")]

RECURSIVE AggLoop(_, _, _)
AggLoop(evs, i, st) ==
    IF i > Len(evs) THEN st
    ELSE With(AggStep(st, evs[i]), LAMBDA nx : AggLoop(evs, i + 1, nx))

\* raw = total / count; agg_score = (raw + 1) / 2
RescaledScore(total, count) == FHalf(FAdd(FDivInt(total, count), FOne))

\* mutant: the upper clamp is missing
Clamp01_NoUpper(a) == PyMax(FZero, a)

\* max(0.0, min(1.0, agg_score))
Clamp01(a) == PyMax(FZero, PyMin(FOne, a))

\* the thresholds 0.66 and 0.33
LabelOf(a) ==
    IF FLess(FloatOfMilli(660), a) THEN "supports"
    ELSE IF FLess(a, FloatOfMilli(330)) THEN "contradicts"
    ELSE "mixed"

\* the loop that deduplicates and trims the notes (seen holds the trimmed
\* texts, notes_clean their clipped forms)
RECURSIVE NotesClean(_, _, _, _)
NotesClean(notes, i, acc, seen) ==
    IF i > Len(notes) \/ Len(acc) >= MaxNotes THEN acc
    ELSE LET t == Strip(notes[i])
         IN  IF t = "" \/ t \in seen
             THEN NotesClean(notes, i + 1, acc, seen)
             ELSE NotesClean(notes, i + 1,
                             Append(acc, IF Len(t) <= NoteClip THEN t
                                         ELSE Prefix(t, NoteClip) \o " ..."),
                             seen \cup {t})

\* round(agg_score, 3), in thousandths
RoundMilli(a) == IF a.neg THEN 0 - RoundScaled(a, 1000) ELSE RoundScaled(a, 1000)

\* mutant: the empty list falls through to the neutral midpoint
EmptyVerdict_Midpoint(cid, human_notes) ==
    [claim_id |-> cid, aggregate_support |-> "mixed", score |-> 500,
     best_evidence |-> NoBest, notes |-> human_notes]

\* the verdict returned for count == 0
EmptyVerdict(cid, human_notes) ==
    [claim_id |-> cid, aggregate_support |-> "insufficient", score |-> 0,
     best_evidence |-> NoBest, notes |-> human_notes]

\* aggregate_evaluations(claim_id, evaluations); score is round(agg_score, 3)
\* in thousandths
AggregateEvaluations(cid, evs) ==
    With(AggLoop(evs, 1, AggStart), LAMBDA st :
        IF st.count = 0 THEN EmptyVerdict(cid, st.human_notes)
        ELSE LET a == Clamp01(RescaledScore(st.total, st.count))
             IN  [claim_id |-> cid,
                  aggregate_support |-> LabelOf(a),
                  score |-> RoundMilli(a),
                  best_evidence |-> st.best,
                  notes |-> NotesClean(st.human_notes, 1, <<>>, {})])

(***************************************************************************)
(* evaluate_claim_vs_excerpt                                               *)
(***************************************************************************)
EvidenceDefaultClip == 300

PyFloatValue(x) == [t |-> "float", v |-> 0, f |-> x]

\* normalized, as line 297 builds it
DefaultEvaluation(ex, url) ==
    [support |-> "uncertain", confidence |-> PyFloatValue(FZero),
     evidence |-> Prefix(ex, EvidenceDefaultClip), reason |-> "", url |-> url, note |-> ""]

\* the branch taken when json.loads(out) gives an object j.  The support is
\* j.get("support", "uncertain") as it is: a label that is not a string is
\* kept as its text, and "" stands for null and for any other falsy value.
JsonEvaluation(ex, url, j) ==
    LET sup  == JGet(j, "support")
        conf == JGet(j, "confidence")
        evd  == JGet(j, "evidence")
        rea  == JGet(j, "reason")
        c    == IF JTruthy(conf) /\ PyFloat(conf).ok THEN PyFloat(conf).f ELSE FZero
        r    == IF JTruthy(rea) THEN PyStr(rea) ELSE ""
        said == IF sup.t = "missing" THEN "uncertain" ELSE PyStr(sup)
    IN  [support |-> IF sup.t = "missing" THEN "uncertain"
                     ELSE IF JTruthy(sup) THEN PyStr(sup) ELSE "",
         confidence |-> PyFloatValue(c),
         evidence |-> IF JTruthy(evd) THEN PyStr(evd) ELSE Prefix(ex, EvidenceDefaultClip),
         reason |-> r,
         url |-> url,
         note |-> "verifier says: " \o said \o "; confidence: " \o Format2f(c)
                    \o (IF r # "" THEN "; reason: " \o Prefix(r, ReasonClip) ELSE "")]

\* the label the keywords of a free text give
KeywordSupport(o) ==
    With(Lower(o), LAMBDA low :
        IF Contains(low, "supports") /\ ~Contains(low, "contradict") THEN "supports"
        ELSE IF Contains(low, "contradict") \/ Contains(low, "contradicts") THEN "contradicts"
        ELSE IF Contains(low, "neutral") THEN "neutral"
        ELSE "uncertain")

DigitChars == {CharAt(Digits, i) : i \in 1..Len(Digits)}

\* group 1 of re.search(r"([0-9]{1,3}(?:\.[0-9]+)?)\s*%?", out): the leftmost
\* digit, at most two more digits, and a fraction if one follows; "" when the
\* text holds no digit
FirstNumber(o) ==
    LET d == FirstOf(o, 1, DigitChars)
        r == SkipDigits(o, d)
        e == IF r > d + 3 THEN d + 3 ELSE r
        f == IF e < Len(o) /\ CharAt(o, e) = "." /\ IsDigit(CharAt(o, e + 1))
             THEN SkipDigits(o, e + 1) ELSE e
    IN  IF d > Len(o) THEN "" ELSE SubSeq(o, d, f - 1)

\* val = float(m.group(1)); if val > 1: val = val / 100.0; max(0.0, min(1.0, val))
NumberConfidence(lit) ==
    LET val == FloatOfMilli(DecimalMilli(lit))
    IN  Clamp01(IF FLess(FOne, val) THEN FDivInt(val, 100) ELSE val)

\* the except branch: out is not an object
TextEvaluation(ex, url, o) ==
    LET num == FirstNumber(o)
    IN  [support |-> KeywordSupport(o),
         confidence |-> PyFloatValue(IF num = "" THEN FZero ELSE NumberConfidence(num)),
         evidence |-> Prefix(ex, EvidenceDefaultClip),
         reason |-> "",
         url |-> url,
         note |-> SanitizeNote(o)]

\* evaluate_claim_vs_excerpt(claim, excerpt, url), out being what
\* llm_call_with_retry returned
EvaluateClaimVsExcerpt(ex, url, o) ==
    IF o = ""
    THEN [DefaultEvaluation(ex, url) EXCEPT !.note = "No response from verifier."]
    ELSE With(JsonLoads(o), LAMBDA j :
            IF j.ok THEN JsonEvaluation(ex, url, j.obj) ELSE TextEvaluation(ex, url, o))

(***************************************************************************)
(* State.                                                                  *)
(***************************************************************************)
VARIABLES
    \* aggregate_evaluations called on its own
    agg_pc, claim_id, evaluations, verdict,
    \* llm_call_with_retry
    llm_pc, attempt, last_exc, llm_errors, sleeps, model_calls, llm_result,
    \* run_research_pipeline: its parameters and environment
    pc, credential, claim_limit, workers,
    \* its locals
    warnings, hits, articles, art_idx, all_claims, cid, limited_claims,
    claim_idx, searched, hits_for_claim, futures, grouped, verified_results,
    \* what it has done to its collaborators and to the file system
    search_calls, top_search_failed, fetch_calls, fetch_failed, extract_calls,
    extracted_ids, llm_calls, claim_searches, failed_searches, eval_calls,
    provenance, report, pdf_path,
    \* _sanitize_note called on its own
    note_pc, note_in, note_result,
    \* evaluate_claim_vs_excerpt called on its own
    eval_pc, excerpt, out, normalized,
    \* fetch_page_text called on its own
    fetch_pc, fetch_url, save_snapshot, html, snapshots, fetch_result

aggVars == <<agg_pc, claim_id, evaluations, verdict>>
llmVars == <<llm_pc, attempt, last_exc, llm_errors, sleeps, model_calls, llm_result>>
paramVars == <<credential, claim_limit, workers>>
localVars == <<warnings, hits, articles, art_idx, all_claims, cid, limited_claims,
               claim_idx, searched, hits_for_claim, futures, grouped, verified_results>>
effectVars == <<search_calls, top_search_failed, fetch_calls, fetch_failed, extract_calls,
                extracted_ids, llm_calls, claim_searches, failed_searches, eval_calls,
                provenance, report, pdf_path>>
pipeVars == <<pc, paramVars, localVars, effectVars>>
noteVars == <<note_pc, note_in, note_result>>
evalVars == <<eval_pc, excerpt, out, normalized>>
fetchVars == <<fetch_pc, fetch_url, save_snapshot, html, snapshots, fetch_result>>
unitVars == <<noteVars, evalVars, fetchVars>>
vars == <<aggVars, llmVars, pipeVars, unitVars>>

NoVerdict == [claim_id |-> 0, aggregate_support |-> "", score |-> 0,
              best_evidence |-> NoBest, notes |-> <<>>]

AggIdle == agg_pc = "idle" /\ claim_id = 0 /\ evaluations = <<>> /\ verdict = NoVerdict

NoFile == [written |-> FALSE]

PipeLocalsInit ==
    /\ warnings = <<>> /\ hits = <<>> /\ articles = <<>> /\ art_idx = 1
    /\ all_claims = <<>> /\ cid = 1 /\ limited_claims = <<>>
    /\ claim_idx = 1 /\ searched = FALSE /\ hits_for_claim = <<>>
    /\ futures = <<>> /\ grouped = <<>> /\ verified_results = <<>>
    /\ search_calls = 0 /\ top_search_failed = FALSE /\ fetch_calls = 0
    /\ fetch_failed = {} /\ extract_calls = 0 /\ extracted_ids = <<>>
    /\ llm_calls = 0 /\ claim_searches = <<>> /\ failed_searches = {}
    /\ eval_calls = 0 /\ provenance = NoFile /\ report = NoFile /\ pdf_path = ""

PipeIdle ==
    /\ pc = "idle" /\ credential = TRUE /\ claim_limit = 0 /\ workers = 0
    /\ PipeLocalsInit

NoteIdle == note_pc = "idle" /\ note_in = "" /\ note_result = ""

NoEvaluation == [support |-> "", confidence |-> PyFloatValue(FZero), url |-> "",
                 evidence |-> "", note |-> "", reason |-> ""]

EvalIdle == eval_pc = "idle" /\ excerpt = "" /\ out = "" /\ normalized = NoEvaluation

NoFetchResult == [text |-> "", url |-> "", error |-> "", title |-> ""]

FetchIdle == /\ fetch_pc = "idle" /\ fetch_url = "" /\ save_snapshot = FALSE /\ html = ""
             /\ snapshots = [dir |-> FALSE, file |-> ""]
             /\ fetch_result = NoFetchResult

UnitIdle == NoteIdle /\ EvalIdle /\ FetchIdle

LlmIdle == /\ llm_pc = "idle" /\ attempt = 0 /\ last_exc = "" /\ llm_errors = <<>>
           /\ sleeps = <<>> /\ model_calls = 0 /\ llm_result = ""

(***************************************************************************)
(* llm_call_with_retry                                                     *)
(***************************************************************************)
MAX_LLM_RETRIES == 4
INITIAL_BACKOFF == 2

\* what one attempt can do: the model answers, or get_llm() / the model call /
\* the response decoding raises an Exception with this text
LlmResponses == {"", "{\"claims\": []}", "This supports the claim, 85% confidence"}
LlmErrorTexts == {"HTTP 429 Too Many Requests", "Quota exceeded", "Rate Limit reached",
                  "connection reset", "read timed out"}

\* ("429" in msg) or ("quota" in msg) or ("rate limit" in msg), msg = str(e).lower()
IsRateLimit(e) ==
    LET msg == Lower(e)
    IN  Contains(msg, "429") \/ Contains(msg, "quota") \/ Contains(msg, "rate limit")

\* wait = INITIAL_BACKOFF * (2 ** attempt)
BackoffWait(k) == INITIAL_BACKOFF * (2 ^ k)

\* mutant: the loop re-raises when the last attempt fails
OnFailure_Reraise(k, e) ==
    IF k < MAX_LLM_RETRIES - 1
    THEN [sleep |-> TRUE, pc |-> "call", result |-> ""]
    ELSE [sleep |-> FALSE, pc |-> "raised", result |-> ""]

\* the except branch of attempt k (0-based) failing with text e: whether it
\* sleeps, where control goes and what is returned
OnFailure(k, e) ==
    IF IsRateLimit(e)
    THEN [sleep |-> TRUE,
          pc |-> IF k + 1 < MAX_LLM_RETRIES THEN "call" ELSE "returned",
          result |-> IF k + 1 < MAX_LLM_RETRIES THEN "" ELSE "[LLM_ERROR] " \o e]
    ELSE IF k < MAX_LLM_RETRIES - 1
    THEN [sleep |-> TRUE, pc |-> "call", result |-> ""]
    ELSE [sleep |-> FALSE, pc |-> "returned",
          result |-> "[LLM_ERROR] " \o e \o "\nTraceback (most recent call last)"]

LlmInit ==
    /\ llm_pc = "call" /\ attempt = 0 /\ last_exc = "" /\ llm_errors = <<>>
    /\ sleeps = <<>> /\ model_calls = 0 /\ llm_result = ""
    /\ AggIdle /\ PipeIdle /\ UnitIdle

\* one iteration of the loop in which the model answers: the text is returned
LlmAttemptSucceeds ==
    /\ llm_pc = "call" /\ attempt < MAX_LLM_RETRIES
    /\ \E r \in LlmResponses : llm_result' = r
    /\ model_calls' = model_calls + 1
    /\ llm_pc' = "returned"
    /\ UNCHANGED <<attempt, last_exc, llm_errors, sleeps, aggVars, pipeVars, unitVars>>

\* one iteration of the loop that raises inside the try: get_llm() raises
\* (invoked = FALSE) or the model call raises (invoked = TRUE)
LlmAttemptFails ==
    /\ llm_pc = "call" /\ attempt < MAX_LLM_RETRIES
    /\ \E e \in LlmErrorTexts, invoked \in BOOLEAN :
          LET o == OnFailure(attempt, e)
          IN  /\ last_exc' = e
              /\ llm_errors' = Append(llm_errors, e)
              /\ model_calls' = IF invoked THEN model_calls + 1 ELSE model_calls
              /\ sleeps' = IF o.sleep THEN Append(sleeps, BackoffWait(attempt)) ELSE sleeps
              /\ attempt' = attempt + 1
              /\ llm_pc' = o.pc
              /\ llm_result' = o.result
    /\ UNCHANGED <<aggVars, pipeVars, unitVars>>

LlmNext == LlmAttemptSucceeds \/ LlmAttemptFails

\* the loop runs on: a model call returns or raises (its timeout is the
\* provider's), and time.sleep returns
SpecLLM == LlmInit /\ [][LlmNext]_vars /\ WF_vars(LlmNext)

(***************************************************************************)
(* Specification SpecAgg: aggregate_evaluations applied to every list of   *)
(* at most MaxEvals evaluations drawn from EvalInputs.                     *)
(***************************************************************************)
MaxEvals == 3
MaxClaimId == 2

Ev(support, ct, cv, note, reason) ==
    [support |-> support, confidence |-> [t |-> ct, v |-> cv],
     url |-> "http://" \o support \o "/" \o ct \o ToString(cv),
     evidence |-> "excerpt " \o ToString(cv), note |-> note, reason |-> reason]

EvalInputs ==
    { Ev("contradicts", "num", 500, "ok", ""),
      Ev("supports", "num", 110, " ok ", ""),
      Ev("contradicts", "num", 630, "", "weak  source\n"),
      Ev("neutral", "num", 600, "", ""),
      Ev("supports", "num", 1500, "", ""),
      Ev("contradicts", "num", 1000, "", "refuted"),
      Ev("supports", "num", 0 - 1500, "", ""),
      Ev("uncertain", "num", 900, "", ""),
      Ev("bogus", "num", 1000, "ok", ""),
      Ev("supports", "nan", 0, "", ""),
      Ev("contradicts", "inf", 0, "", ""),
      Ev("uncertain", "inf", 0, "", ""),
      Ev("neutral", "num", 641, "", ""),
      Ev("", "none", 0, "", "") }

AggInit ==
    /\ agg_pc = "input"
    /\ claim_id \in 1..MaxClaimId
    /\ evaluations = <<>>
    /\ verdict = NoVerdict
    /\ LlmIdle /\ PipeIdle /\ UnitIdle

\* the caller adds one evaluation to the list it will pass
AppendEvaluation ==
    /\ agg_pc = "input"
    /\ Len(evaluations) < MaxEvals
    /\ \E ev \in EvalInputs : evaluations' = Append(evaluations, ev)
    /\ UNCHANGED <<agg_pc, claim_id, verdict, llmVars, pipeVars, unitVars>>

\* verdict = aggregate_evaluations(claim_id, evaluations)
CallAggregate ==
    /\ agg_pc = "input"
    /\ verdict' = AggregateEvaluations(claim_id, evaluations)
    /\ agg_pc' = "done"
    /\ UNCHANGED <<claim_id, evaluations, llmVars, pipeVars, unitVars>>

AggNext == AppendEvaluation \/ CallAggregate

SpecAgg == AggInit /\ [][AggNext]_vars

\* longest list of evaluations in the runs that exercise the notes: one more
\* than the cap of the notes list
MaxNotedEvals == 7

\* 448 characters of plain text: more than the 400 a note may keep
NoteFiller ==
    LET x == "The source reports the measurement and compares it with others. "
    IN  x \o x \o x \o x \o x \o x \o x

\* the evaluations an evaluator may hand in as the i-th of a list: one without
\* note or reason, one whose note repeats up to its spaces, one with a long
\* reason that names its source at the end
NotedInputs(i) ==
    { Ev("supports", "num", 100 * i, "", ""),
      Ev("neutral", "num", 500, IF i % 2 = 0 THEN "ok" ELSE " ok ", ""),
      Ev("contradicts", "num", 500, "", NoteFiller \o "Source " \o ToString(i) \o ".") }

AggNotesInit ==
    /\ agg_pc = "input"
    /\ claim_id = 1
    /\ evaluations = <<>>
    /\ verdict = NoVerdict
    /\ LlmIdle /\ PipeIdle /\ UnitIdle

\* the caller adds one evaluation, with its note, to the list it will pass
AppendNotedEvaluation ==
    /\ agg_pc = "input"
    /\ Len(evaluations) < MaxNotedEvals
    /\ \E ev \in NotedInputs(Len(evaluations) + 1) : evaluations' = Append(evaluations, ev)
    /\ UNCHANGED <<agg_pc, claim_id, verdict, llmVars, pipeVars, unitVars>>

AggNotesNext == AppendNotedEvaluation \/ CallAggregate

\* aggregate_evaluations on lists long enough to fill the notes
SpecAggNotes == AggNotesInit /\ [][AggNotesNext]_vars

(***************************************************************************)
(* run_research_pipeline                                                   *)
(***************************************************************************)
MaxHits == 2
MaxClaims == 2
MaxClaimLimit == 2
MaxTasks == 3
MaxWorkers == 2
MinArticleLen == 80

ShortText == "Too short to extract."
LongText == "Einstein published the general theory of relativity in 1915. " \o
            "It was confirmed by the 1919 eclipse observations."

\* the id the extractor gives the k-th claim of one article: the model is asked
\* to number the claims of an article from 1, and the heuristic fallback does
ExtId(k) == k

\* the j-th hit of the verification search for the claim with this id
SourceUrl(id, j) == "http://source/" \o ToString(id) \o "/" \o ToString(j)

\* what the model answers when asked to judge a claim against a source: the
\* answer depends on the source, here on its rank among the hits (a structured
\* judgment that supports and quotes the page's raw content, a structured
\* judgment that contradicts, free text)
VerifierResponse(rank) ==
    IF rank = 1
    THEN "{\"support\":\"supports\",\"confidence\":0.9,\"evidence\":\"%PDF-1.4 {\\\"a\\\":1} obj\"}"
    ELSE IF rank = 2 THEN "{\"support\":\"contradicts\",\"confidence\":0.8}"
    ELSE "neutral, 60% confidence"

\* the excerpt of a source: (text_s or "")[:1200] of what fetch_page_text gave
SourceExcerpt == "The 1919 eclipse observations agree with the prediction."

RankOf(url) ==
    LET j == CharAt(url, Len(url))
    IN  IF j = "1" THEN 1 ELSE IF j = "2" THEN 2 ELSE 3

EvaluationByRank ==
    [r \in 1..3 |-> EvaluateClaimVsExcerpt(SourceExcerpt, "", VerifierResponse(r))]

\* what evaluate_claim_vs_excerpt returns for a source when it does not raise
EvaluationOf(url) == [EvaluationByRank[RankOf(url)] EXCEPT !.url = url]

\* the evaluation recorded for a task whose future raised
TaskErrorResult ==
    [support |-> "uncertain", confidence |-> [t |-> "num", v |-> 0], url |-> "",
     evidence |-> "", note |-> "", reason |-> "[task_error] boom"]

Warning(kind, claim) == [kind |-> kind, claim |-> claim]

PipeInit ==
    /\ pc = "start"
    /\ credential \in BOOLEAN
    /\ claim_limit \in 0..MaxClaimLimit
    /\ workers \in {0, MaxWorkers}
    /\ PipeLocalsInit
    /\ AggIdle /\ LlmIdle /\ UnitIdle

\* has_internet(): a missing connection is only a warning
CheckInternet ==
    /\ pc = "start"
    /\ \E online \in BOOLEAN :
          warnings' = IF online THEN warnings
                      ELSE Append(warnings, Warning("no_internet", 0))
    /\ pc' = "search"
    /\ UNCHANGED <<paramVars, hits, articles, art_idx, all_claims, cid, limited_claims,
                   claim_idx, searched, hits_for_claim, futures, grouped,
                   verified_results, effectVars, aggVars, llmVars, unitVars>>

\* mutant: a failed top-level search is swallowed and the run goes on with no hits
OnTopSearchFailure_Swallow == "limit"

\* except Exception as e: logger.error(...); raise
OnTopSearchFailure == "raised"

\* search_serpapi raises RuntimeError before any request: no credential
TopSearchNoCredential ==
    /\ pc = "search" /\ ~credential
    /\ search_calls' = search_calls + 1
    /\ top_search_failed' = TRUE
    /\ pc' = OnTopSearchFailure
    /\ UNCHANGED <<paramVars, localVars, fetch_calls, fetch_failed, extract_calls,
                   extracted_ids, llm_calls, claim_searches, failed_searches,
                   eval_calls, provenance, report, pdf_path, aggVars, llmVars, unitVars>>

\* the request of the top-level search fails (network, HTTP status, decoding)
TopSearchFails ==
    /\ pc = "search" /\ credential
    /\ search_calls' = search_calls + 1
    /\ top_search_failed' = TRUE
    /\ pc' = OnTopSearchFailure
    /\ UNCHANGED <<paramVars, localVars, fetch_calls, fetch_failed, extract_calls,
                   extracted_ids, llm_calls, claim_searches, failed_searches,
                   eval_calls, provenance, report, pdf_path, aggVars, llmVars, unitVars>>

\* the top-level search returns n <= top_k hits
TopSearchReturns ==
    /\ pc = "search" /\ credential
    /\ search_calls' = search_calls + 1
    /\ \E n \in 0..MaxHits :
          /\ hits' = [i \in 1..n |-> [url |-> "http://hit/" \o ToString(i)]]
          /\ pc' = IF n = 0 THEN "limit" ELSE "fetch"
    /\ UNCHANGED <<paramVars, warnings, articles, art_idx, all_claims, cid,
                   limited_claims, claim_idx, searched, hits_for_claim, futures,
                   grouped, verified_results, top_search_failed, fetch_calls,
                   fetch_failed, extract_calls, extracted_ids, llm_calls,
                   claim_searches, failed_searches, eval_calls, provenance, report,
                   pdf_path, aggVars, llmVars, unitVars>>

\* fetch_page_text: "" on a failed request, else the extracted text
FetchedText(outcome) ==
    IF outcome = "failed" THEN "" ELSE IF outcome = "short" THEN ShortText ELSE LongText

\* mutant: a failed fetch is reported in the run's warnings
WarningsAfterFetch_Warn(w, i, failed) ==
    IF failed THEN Append(w, Warning("fetch", i)) ELSE w

\* the fetch loop logs an empty text and appends nothing to warnings
WarningsAfterFetch(w, i, failed) == w

\* one iteration of the fetch loop, for hit number Len(articles) + 1;
\* fetch_page_text is called with save_snapshot=True, and when the page came
\* but os.makedirs("snapshots") raises, the error leaves the pipeline
FetchArticle ==
    /\ pc = "fetch"
    /\ LET i == Len(articles) + 1
       IN  \/ \E outcome \in {"failed", "short", "long"} :
                 /\ articles' = Append(articles, [url |-> hits[i].url,
                                                  text |-> FetchedText(outcome)])
                 /\ fetch_failed' = IF outcome = "failed" THEN fetch_failed \cup {i}
                                    ELSE fetch_failed
                 /\ warnings' = WarningsAfterFetch(warnings, i, outcome = "failed")
                 /\ pc' = IF i = Len(hits) THEN "extract" ELSE "fetch"
           \/ /\ pc' = "fetch_error"
              /\ UNCHANGED <<articles, fetch_failed, warnings>>
    /\ fetch_calls' = fetch_calls + 1
    /\ UNCHANGED <<paramVars, hits, art_idx, all_claims, cid, limited_claims,
                   claim_idx, searched, hits_for_claim, futures, grouped,
                   verified_results, search_calls, top_search_failed, extract_calls,
                   extracted_ids, llm_calls, claim_searches, failed_searches,
                   eval_calls, provenance, report, pdf_path, aggVars, llmVars, unitVars>>

\* mutant: the id the extractor supplied is kept
AssignId_Keep(cl, n) == cl

\* cl["id"] = cid
AssignId(cl, n) == [cl EXCEPT !.id = n]

\* the n claims of article i as merged into all_claims, the first of them
\* getting the id first (span stands for the snippet: claim k of article i).
\* keyed: the records carry the "claim" key; without it cl.get("claim", "")
\* is "" and cl.get("claim") is None
MergedClaims(i, n, first, keyed) ==
    [k \in 1..n |-> AssignId([id |-> ExtId(k),
                              claim |-> IF keyed
                                        THEN "claim " \o ToString(i) \o "." \o ToString(k)
                                        ELSE "",
                              has_claim |-> keyed,
                              span |-> <<i, k>>],
                             first + k - 1)]

\* one iteration of the extraction loop, for article art_idx
ExtractArticle ==
    /\ pc = "extract"
    /\ LET art == articles[art_idx]
       IN  \/ \* if not art.get("text"): continue
              /\ art.text = ""
              /\ UNCHANGED <<all_claims, cid, extract_calls, extracted_ids, llm_calls>>
           \/ \* extract_claims_from_text returns [] for a text under the minimum
              /\ art.text # "" /\ Len(Strip(art.text)) < MinArticleLen
              /\ extract_calls' = extract_calls + 1
              /\ UNCHANGED <<all_claims, cid, extracted_ids, llm_calls>>
           \/ \* the model is called and n claim records come back
              /\ art.text # "" /\ Len(Strip(art.text)) >= MinArticleLen
              /\ extract_calls' = extract_calls + 1
              /\ llm_calls' = llm_calls + 1
              /\ \E n \in 0..(MaxClaims - Len(all_claims)), keyed \in BOOLEAN :
                    /\ (n = 0) => keyed
                    /\ all_claims' = all_claims \o MergedClaims(art_idx, n, cid, keyed)
                    /\ extracted_ids' = extracted_ids \o [k \in 1..n |-> ExtId(k)]
                    /\ cid' = cid + n
    /\ art_idx' = art_idx + 1
    /\ pc' = IF art_idx = Len(articles) THEN "limit" ELSE "extract"
    /\ UNCHANGED <<paramVars, warnings, hits, articles, limited_claims, claim_idx,
                   searched, hits_for_claim, futures, grouped, verified_results,
                   search_calls, top_search_failed, fetch_calls, fetch_failed,
                   claim_searches, failed_searches, eval_calls, provenance, report,
                   pdf_path, aggVars, llmVars, unitVars>>

\* the parsed response has a "claims" value that is not a list of records (a
\* list of strings, a string, a mapping): extract_claims_from_text returns it
\* as it is and cl["id"] = cid raises TypeError in the extraction loop
ExtractMalformed ==
    /\ pc = "extract"
    /\ articles[art_idx].text # ""
    /\ Len(Strip(articles[art_idx].text)) >= MinArticleLen
    /\ extract_calls' = extract_calls + 1
    /\ llm_calls' = llm_calls + 1
    /\ pc' = "extract_error"
    /\ UNCHANGED <<paramVars, localVars, search_calls, top_search_failed, fetch_calls,
                   fetch_failed, extracted_ids, claim_searches, failed_searches,
                   eval_calls, provenance, report, pdf_path, aggVars, llmVars, unitVars>>

\* mutant: the limit is not applied
LimitedClaims_All(all, limit) == all

\* all_claims[:claim_limit] for claim_limit >= 0
LimitedClaims(all, limit) == SubSeq(all, 1, IF limit < Len(all) THEN limit ELSE Len(all))

\* "if not all_claims" and the limiting of the claim list
LimitClaims ==
    /\ pc = "limit"
    /\ IF all_claims = <<>>
       THEN pc' = "no_claims" /\ UNCHANGED limited_claims
       ELSE /\ limited_claims' = LimitedClaims(all_claims, claim_limit)
            /\ pc' = IF limited_claims' = <<>> THEN "collect" ELSE "verify"
    /\ UNCHANGED <<paramVars, warnings, hits, articles, art_idx, all_claims, cid,
                   claim_idx, searched, hits_for_claim, futures, grouped,
                   verified_results, effectVars, aggVars, llmVars, unitVars>>

\* the loop "for cl in limited_claims" moves to its next claim, or ends
NextClaim ==
    /\ claim_idx' = claim_idx + 1
    /\ searched' = FALSE
    /\ pc' = IF claim_idx = Len(limited_claims) THEN "collect" ELSE "verify"

\* the verification search of limited claim claim_idx returns n hits
ClaimSearchReturns ==
    /\ pc = "verify" /\ ~searched
    /\ search_calls' = search_calls + 1
    /\ claim_searches' = Append(claim_searches, limited_claims[claim_idx].id)
    /\ \E n \in 0..(MaxTasks - Len(futures)) :
          /\ hits_for_claim' = [j \in 1..n |-> SourceUrl(limited_claims[claim_idx].id, j)]
          /\ IF n = 0 THEN NextClaim
             ELSE searched' = TRUE /\ UNCHANGED <<claim_idx, pc>>
    /\ UNCHANGED <<paramVars, warnings, hits, articles, art_idx, all_claims, cid,
                   limited_claims, futures, grouped, verified_results,
                   top_search_failed, fetch_calls, fetch_failed, extract_calls,
                   extracted_ids, llm_calls, failed_searches, eval_calls, provenance,
                   report, pdf_path, aggVars, llmVars, unitVars>>

\* mutant: a failed claim search leaves no warning
WarningsAfterClaimSearchFailure_Silent(w, id) == w

\* warnings.append(f"Search for claim {cl.get('id')} failed: {e}")
WarningsAfterClaimSearchFailure(w, id) == Append(w, Warning("claim_search", id))

\* the verification search of limited claim claim_idx raises: hits_for_claim = []
ClaimSearchFails ==
    /\ pc = "verify" /\ ~searched
    /\ search_calls' = search_calls + 1
    /\ claim_searches' = Append(claim_searches, limited_claims[claim_idx].id)
    /\ failed_searches' = failed_searches \cup {limited_claims[claim_idx].id}
    /\ warnings' = WarningsAfterClaimSearchFailure(warnings, limited_claims[claim_idx].id)
    /\ hits_for_claim' = <<>>
    /\ NextClaim
    /\ UNCHANGED <<paramVars, hits, articles, art_idx, all_claims, cid,
                   limited_claims, futures, grouped, verified_results,
                   top_search_failed, fetch_calls, fetch_failed, extract_calls,
                   extracted_ids, llm_calls, eval_calls, provenance, report, pdf_path,
                   aggVars, llmVars, unitVars>>

\* one iteration of "for hf in hits_for_claim": the source is fetched and one
\* evaluation task is submitted to the pool
SubmitTask ==
    /\ pc = "verify" /\ searched
    /\ fetch_calls' = fetch_calls + 1
    /\ futures' = Append(futures, [cid |-> limited_claims[claim_idx].id,
                                   url |-> Head(hits_for_claim), st |-> "queued",
                                   res |-> TaskErrorResult, collected |-> FALSE])
    /\ hits_for_claim' = Tail(hits_for_claim)
    /\ IF Tail(hits_for_claim) = <<>> THEN NextClaim
       ELSE UNCHANGED <<claim_idx, searched, pc>>
    /\ UNCHANGED <<paramVars, warnings, hits, articles, art_idx, all_claims, cid,
                   limited_claims, grouped, verified_results, search_calls,
                   top_search_failed, fetch_failed, extract_calls, extracted_ids,
                   llm_calls, claim_searches, failed_searches, eval_calls, provenance,
                   report, pdf_path, aggVars, llmVars, unitVars>>

\* mutant: the pool runs every submitted task at once
PoolSize_Unbounded(w) == MaxTasks

\* ThreadPoolExecutor(max_workers=max(1, workers))
PoolSize(w) == IF w < 1 THEN 1 ELSE w

Running == {t \in 1..Len(futures) : futures[t].st = "running"}

poolUnchanged ==
    UNCHANGED <<pc, paramVars, warnings, hits, articles, art_idx, all_claims, cid,
                limited_claims, claim_idx, searched, hits_for_claim, grouped,
                verified_results, search_calls, top_search_failed, fetch_calls,
                fetch_failed, extract_calls, extracted_ids, llm_calls, claim_searches,
                failed_searches, provenance, report, pdf_path, aggVars, llmVars, unitVars>>

\* a free worker thread takes the oldest queued task and calls
\* evaluate_claim_vs_excerpt
WorkerStart ==
    /\ pc \in {"verify", "collect"}
    /\ Cardinality(Running) < PoolSize(workers)
    /\ \E t \in 1..Len(futures) :
          /\ futures[t].st = "queued"
          /\ \A u \in 1..(t - 1) : futures[u].st # "queued"
          /\ futures' = [futures EXCEPT ![t].st = "running"]
    /\ eval_calls' = eval_calls + 1
    /\ poolUnchanged

\* a running task returns its evaluation
WorkerFinish ==
    /\ pc \in {"verify", "collect"}
    /\ \E t \in Running :
          futures' = [futures EXCEPT ![t].st = "done", ![t].res = EvaluationOf(futures[t].url)]
    /\ UNCHANGED eval_calls
    /\ poolUnchanged

\* a running task raises
WorkerRaises ==
    /\ pc \in {"verify", "collect"}
    /\ \E t \in Running : futures' = [futures EXCEPT ![t].st = "raised"]
    /\ UNCHANGED eval_calls
    /\ poolUnchanged

\* grouped.get(k, [])
GroupedGet(g, k) == IF k \in DOMAIN g THEN g[k] ELSE <<>>

\* mutant: the list of the claim is replaced, not appended to
GroupedAppend_Overwrite(g, k, res) ==
    [x \in (DOMAIN g) \cup {k} |-> IF x = k THEN <<res>> ELSE g[x]]

\* grouped.setdefault(k, []).append(res)
GroupedAppend(g, k, res) ==
    [x \in (DOMAIN g) \cup {k} |-> IF x = k THEN Append(GroupedGet(g, k), res) ELSE g[x]]

\* one iteration of the as_completed loop: some finished future not yet
\* yielded is taken, whatever the order the futures were submitted in
Collect ==
    /\ pc = "collect"
    /\ \E t \in 1..Len(futures) :
          /\ futures[t].st \in {"done", "raised"} /\ ~futures[t].collected
          /\ LET res == IF futures[t].st = "raised" THEN TaskErrorResult
                        ELSE futures[t].res
             IN  grouped' = GroupedAppend(grouped, futures[t].cid,
                                          [res EXCEPT !.url = futures[t].url])
          /\ futures' = [futures EXCEPT ![t].collected = TRUE]
    /\ UNCHANGED <<pc, paramVars, warnings, hits, articles, art_idx, all_claims, cid,
                   limited_claims, claim_idx, searched, hits_for_claim,
                   verified_results, effectVars, aggVars, llmVars, unitVars>>

\* every future has been yielded: the with block of the pool is left
ExitPool ==
    /\ pc = "collect"
    /\ \A t \in 1..Len(futures) : futures[t].collected
    /\ pc' = "aggregate"
    /\ UNCHANGED <<paramVars, localVars, effectVars, aggVars, llmVars, unitVars>>

\* mutant: the verdicts are built in reverse claim order
ClaimToAggregate_Reversed(lim, k) == lim[Len(lim) - k + 1]

\* the k-th claim of "for cl in limited_claims"
ClaimToAggregate(lim, k) == lim[k]

\* one iteration of the aggregation loop
AggregateClaim ==
    /\ pc = "aggregate"
    /\ Len(verified_results) < Len(limited_claims)
    /\ LET cl == ClaimToAggregate(limited_claims, Len(verified_results) + 1)
       IN  verified_results' =
              Append(verified_results,
                     AggregateEvaluations(cl.id, GroupedGet(grouped, cl.id)))
    /\ UNCHANGED <<pc, paramVars, warnings, hits, articles, art_idx, all_claims, cid,
                   limited_claims, claim_idx, searched, hits_for_claim, futures,
                   grouped, effectVars, aggVars, llmVars, unitVars>>

ExcerptClip == 900

\* the excerpt as the report shows it: stripped, its line breaks replaced,
\* cut to 900 characters
PlaceExcerpt(x) ==
    LET b == Strip(ReplaceNewlines(Strip(x)))
    IN  Prefix(b, ExcerptClip) \o (IF Len(b) > ExcerptClip THEN "..." ELSE "")

\* the bullets of a finding: _sanitize_note of its first notes, the empty
\* ones left out
RECURSIVE NoteItems(_, _)
NoteItems(notes, i) ==
    IF i > Len(notes) \/ i > MaxNotes THEN <<>>
    ELSE With(SanitizeNote(notes[i]), LAMBDA t : IF t = "" THEN <<>> ELSE <<t>>)
            \o NoteItems(notes, i + 1)

\* the number of pairs of zip(claims, verified)
NumFindings(claims, verified) ==
    IF Len(claims) < Len(verified) THEN Len(claims) ELSE Len(verified)

\* the Findings of the report: zip(claims, verified)
Findings(claims, verified) ==
    [i \in 1..NumFindings(claims, verified) |->
        LET be == verified[i].best_evidence
        IN  [claim |-> claims[i].claim, verdict |-> verified[i],
             excerpt |-> IF be.present /\ be.url # "" THEN PlaceExcerpt(be.excerpt) ELSE "",
             notes |-> NoteItems(verified[i].notes, 1)]]

\* building a finding raises: claim_text = cl.get("claim").strip() on a record
\* without the "claim" key (zip(claims, verified) bounds the findings built)
AssemblyRaises(claims, verified) ==
    \E i \in 1..NumFindings(claims, verified) : ~claims[i].has_claim

\* generate_pdf_report(query, claims, verified, articles, warnings):
\* os.makedirs("reports") is called, the provenance file is written (a failure
\* becomes a warning), the summary is asked of the model, the flowables are
\* assembled, and the document is built; only doc.build is inside a try, whose
\* handler builds the fallback document, outside any try
GeneratePdfReport(claims, verified) ==
    LET raises   == AssemblyRaises(claims, verified)
        findings == Findings(claims, verified)
    IN
    \/ \* os.makedirs("reports", exist_ok=True) raises
       /\ pc' = "makedirs_error"
       /\ UNCHANGED <<provenance, warnings, llm_calls, report, pdf_path>>
    \/ \E prov_ok \in BOOLEAN, build \in {"ok", "fallback", "raises"} :
          LET w == IF prov_ok THEN warnings
                   ELSE Append(warnings, Warning("provenance", 0))
          IN  /\ provenance' = IF prov_ok
                               THEN [written |-> TRUE, claims |-> claims,
                                     verified |-> verified, sources |-> articles]
                               ELSE NoFile
              \* warnings = warnings or []: a non-empty list is appended to in place
              /\ warnings' = IF warnings = <<>> THEN warnings ELSE w
              /\ llm_calls' = llm_calls + 1
              /\ IF raises
                 THEN pc' = "assembly_error" /\ UNCHANGED <<report, pdf_path>>
                 ELSE IF build = "raises"
                 THEN pc' = "build_error" /\ UNCHANGED <<report, pdf_path>>
                 ELSE /\ report' = IF build = "ok"
                                   THEN [written |-> TRUE, kind |-> "full", warnings |-> w,
                                         findings |-> findings,
                                         no_claims |-> (claims = <<>>)]
                                   ELSE [written |-> TRUE, kind |-> "fallback",
                                         warnings |-> <<>>, findings |-> <<>>,
                                         no_claims |-> FALSE]
                      /\ pdf_path' = "reports/report.pdf"
                      /\ pc' = "done"

renderUnchanged ==
    UNCHANGED <<paramVars, hits, articles, art_idx, all_claims, cid, limited_claims,
                claim_idx, searched, hits_for_claim, futures, grouped,
                verified_results, search_calls, top_search_failed, fetch_calls,
                fetch_failed, extract_calls, extracted_ids, claim_searches,
                failed_searches, eval_calls, aggVars, llmVars, unitVars>>

\* no claim was extracted: the minimal report is generated and returned
RenderNoClaims ==
    /\ pc = "no_claims"
    /\ GeneratePdfReport(<<>>, <<>>)
    /\ renderUnchanged

\* mutant: the report is generated while verdicts are still missing
AggregationEnded_Early == TRUE

\* the loop "for cl in limited_claims" of the aggregation has ended
AggregationEnded == Len(verified_results) = Len(limited_claims)

\* every limited claim has its verdict: the report is generated and returned
RenderReport ==
    /\ pc = "aggregate"
    /\ AggregationEnded
    /\ GeneratePdfReport(limited_claims, verified_results)
    /\ renderUnchanged

\* the positions of the main thread before generate_pdf_report is entered
BeforeRender ==
    {"start", "search", "fetch", "extract", "limit", "verify", "collect",
     "aggregate", "no_claims"}

\* KeyboardInterrupt reaches the main thread before the render stage: no
\* handler of the pipeline or of main catches it (they catch Exception), so
\* the run ends where it is
Interrupt ==
    /\ pc \in BeforeRender
    /\ pc' = "interrupted"
    /\ UNCHANGED <<paramVars, localVars, effectVars, aggVars, llmVars, unitVars>>

PipeNext ==
    \/ CheckInternet
    \/ TopSearchNoCredential \/ TopSearchFails \/ TopSearchReturns
    \/ FetchArticle
    \/ ExtractArticle \/ ExtractMalformed
    \/ LimitClaims
    \/ ClaimSearchReturns \/ ClaimSearchFails \/ SubmitTask
    \/ WorkerStart \/ WorkerFinish \/ WorkerRaises
    \/ Collect \/ ExitPool
    \/ AggregateClaim
    \/ RenderNoClaims \/ RenderReport
    \/ Interrupt

Init == PipeInit
Next == PipeNext
Spec == Init /\ [][Next]_vars

\* the pipeline is sequential code and the pool's threads run: a step that can
\* be taken is taken
SpecFair == Spec /\ WF_vars(Next)

(***************************************************************************)
(* Specification SpecNote: _sanitize_note applied to the notes made of a   *)
(* leading text, a block and a trailing text.                              *)
(***************************************************************************)
Sentence == "The observations reported in the paper agree with the claim. "

\* 549 characters: more than the 500 a cleaned note may have
LongFiller == Sentence \o Sentence \o Sentence \o Sentence \o Sentence
                \o Sentence \o Sentence \o Sentence \o Sentence

NotePrefixes == {"", "note: ", "see {x} first ", "raw %PDF-1.4 "}

NoteBlocks ==
    { "{\"support\":\"supports\",\"confidence\":0.9,\"reason\":\"fine\"}",
      "{\"support\":\"supports\",\"confidence\":0.9,\"reason\":\"see {\\\"k\\\": 1}\"}",
      "{\"support\": \"neutral\", \"confidence\": \"high\", \"reason\": \"fine\"}",
      "{\"support\":\"supports\",\"confidence\":0.9,\"reason\":\"r\",\"evidence\":\"%PDF-1.4 raw\"}",
      "{\"support\":\"supports\",\"confidence\":0.9,\"reason\":\"r\",\"evidence\":\"<</Filter /FlateDecode\"}",
      "{\"support\":\"contradicts\",\"confidence\":\"high\",\"reason\":\"" \o LongFiller \o "\"}",
      "{\"confidence\":0.25}",
      "",
      "plain  text\twith\nspaces",
      "%PDF-1.7 binary",
      "<</Filter /DCTDecode>>",
      "data from an upstream source" }

NoteSuffixes == {"", " end", "\n", " } "}

NoteInputs == {p \o b \o x : p \in NotePrefixes, b \in NoteBlocks, x \in NoteSuffixes}

NoteInit ==
    /\ note_pc = "call" /\ note_in \in NoteInputs /\ note_result = ""
    /\ EvalIdle /\ FetchIdle
    /\ AggIdle /\ LlmIdle /\ PipeIdle

\* note_result = _sanitize_note(note_in)
SanitizeCall ==
    /\ note_pc = "call"
    /\ note_result' = SanitizeNote(note_in)
    /\ note_pc' = "returned"
    /\ UNCHANGED <<note_in, evalVars, fetchVars, aggVars, llmVars, pipeVars>>

NoteNext == SanitizeCall

SpecNote == NoteInit /\ [][NoteNext]_vars

(***************************************************************************)
(* Specification SpecEval: evaluate_claim_vs_excerpt applied to what the   *)
(* model can answer: nothing, an object, or free text.                     *)
(***************************************************************************)
EvalUrl == "http://source/1/1"

EvalExcerpts == {"", "The theory was confirmed by the 1919 eclipse observations."}

EvalSupportFields ==
    {"", "\"support\":\"supports\"", "\"support\":\"partially\"", "\"support\":null"}

EvalConfidenceFields ==
    {"", "\"confidence\":0.9", "\"confidence\":1.7", "\"confidence\":-0.5",
     "\"confidence\":\"nan\"", "\"confidence\":\"high\""}

JsonResponse(a, b) == "{" \o a \o (IF a # "" /\ b # "" THEN ", " ELSE "") \o b \o "}"

TextResponses ==
    { "",
      "This supports the claim, 85% confidence",
      "A 2019 study supports the claim with 85% confidence",
      "It does not contradict; supports 90%",
      "The excerpt contradicts the claim. Confidence: 0.7",
      "neutral, 60% confidence",
      "Supports the claim, confidence 150%",
      "Cannot tell from this excerpt",
      "[LLM_ERROR] HTTP 429 Too Many Requests" }

EvalResponses ==
    {JsonResponse(a, b) : a \in EvalSupportFields, b \in EvalConfidenceFields}
        \cup TextResponses

EvalInit ==
    /\ eval_pc = "call" /\ excerpt \in EvalExcerpts /\ out \in EvalResponses
    /\ normalized = NoEvaluation
    /\ NoteIdle /\ FetchIdle
    /\ AggIdle /\ LlmIdle /\ PipeIdle

\* normalized = evaluate_claim_vs_excerpt(claim, excerpt, url)
EvaluateCall ==
    /\ eval_pc = "call"
    /\ normalized' = EvaluateClaimVsExcerpt(excerpt, EvalUrl, out)
    /\ eval_pc' = "returned"
    /\ UNCHANGED <<excerpt, out, noteVars, fetchVars, aggVars, llmVars, pipeVars>>

EvalNext == EvaluateCall

SpecEval == EvalInit /\ [][EvalNext]_vars

(***************************************************************************)
(* Specification SpecFetch: fetch_page_text, step by step.                 *)
(***************************************************************************)
FetchUrls == {"http://a.example/page", "http://b.example/paper.pdf", "http://c.example/"}

\* what requests.get / raise_for_status can raise
RequestErrors == {"HTTPSConnectionPool: Read timed out.", "404 Client Error: Not Found"}

\* the pages a server can answer with, and what the two extractions give of
\* each: readability's summary and short title, and the text of the whole
\* document
Pages ==
    { [html  |-> "<html><title>T</title><body><nav>menu</nav><p> Body text </p></body></html>",
       title |-> "T", main |-> " Body text \n", all |-> "T\nmenu\n Body text "],
      [html  |-> "<p>only a paragraph</p>",
       title |-> "[no-title]", main |-> "only a paragraph", all |-> "only a paragraph"],
      [html  |-> "%PDF-1.4 binary", title |-> "[no-title]", main |-> "%PDF-1.4 binary",
       all |-> "%PDF-1.4 binary"] }

PageOf(h) == CHOOSE p \in Pages : p.html = h

NoSnapshots == [dir |-> FALSE, file |-> ""]

\* return "", {"url": url, "error": str(e)}
ErrorResult(url, e) == [text |-> "", url |-> url, error |-> e, title |-> ""]

\* return text.strip(), {"url": url, "title": title}
MainResult(url, h) ==
    [text |-> Strip(PageOf(h).main), url |-> url, error |-> "", title |-> PageOf(h).title]

\* return text.strip(), {"url": url, "title": None}
FallbackResult(url, h) ==
    [text |-> Strip(PageOf(h).all), url |-> url, error |-> "", title |-> "None"]

FetchInit ==
    /\ fetch_pc = "request" /\ fetch_url \in FetchUrls /\ save_snapshot \in BOOLEAN
    /\ html = "" /\ snapshots = NoSnapshots /\ fetch_result = NoFetchResult
    /\ NoteIdle /\ EvalIdle
    /\ AggIdle /\ LlmIdle /\ PipeIdle

fetchOthers == <<noteVars, evalVars, aggVars, llmVars, pipeVars>>

\* requests.get or raise_for_status raises: the error pair is returned
RequestFails ==
    /\ fetch_pc = "request"
    /\ \E e \in RequestErrors : fetch_result' = ErrorResult(fetch_url, e)
    /\ fetch_pc' = "returned"
    /\ UNCHANGED <<fetch_url, save_snapshot, html, snapshots, fetchOthers>>

\* the server answers: html = r.text
RequestReturns ==
    /\ fetch_pc = "request"
    /\ \E p \in Pages : html' = p.html
    /\ fetch_pc' = IF save_snapshot THEN "snapshot" ELSE "extract"
    /\ UNCHANGED <<fetch_url, save_snapshot, snapshots, fetch_result, fetchOthers>>

\* os.makedirs("snapshots", exist_ok=True) raises (the directory cannot be
\* created, or a file of that name exists): the call is outside any try and
\* the exception leaves fetch_page_text
SnapshotDirRaises ==
    /\ fetch_pc = "snapshot"
    /\ fetch_pc' = "raised"
    /\ UNCHANGED <<fetch_url, save_snapshot, html, snapshots, fetch_result, fetchOthers>>

\* the directory exists and the snapshot file is written
SnapshotWritten ==
    /\ fetch_pc = "snapshot"
    /\ snapshots' = [dir |-> TRUE, file |-> html]
    /\ fetch_pc' = "extract"
    /\ UNCHANGED <<fetch_url, save_snapshot, html, fetch_result, fetchOthers>>

\* the directory exists and writing the file raises: except Exception: pass
SnapshotWriteFails ==
    /\ fetch_pc = "snapshot"
    /\ snapshots' = [dir |-> TRUE, file |-> ""]
    /\ fetch_pc' = "extract"
    /\ UNCHANGED <<fetch_url, save_snapshot, html, fetch_result, fetchOthers>>

\* the main-content extraction succeeds
ExtractMain ==
    /\ fetch_pc = "extract"
    /\ fetch_result' = MainResult(fetch_url, html)
    /\ fetch_pc' = "returned"
    /\ UNCHANGED <<fetch_url, save_snapshot, html, snapshots, fetchOthers>>

\* the main-content extraction raises: the text of the whole document is
\* returned
ExtractFallback ==
    /\ fetch_pc = "extract"
    /\ fetch_result' = FallbackResult(fetch_url, html)
    /\ fetch_pc' = "returned"
    /\ UNCHANGED <<fetch_url, save_snapshot, html, snapshots, fetchOthers>>

FetchNext ==
    \/ RequestFails \/ RequestReturns
    \/ SnapshotDirRaises \/ SnapshotWritten \/ SnapshotWriteFails
    \/ ExtractMain \/ ExtractFallback

SpecFetch == FetchInit /\ [][FetchNext]_vars

\* the list evs reordered by the permutation p of its indices
Permuted(evs, p) == [i \in 1..Len(evs) |-> evs[p[i]]]

\* the score before clamping, of a non-empty list
UnclampedScore(evs) ==
    LET st == AggLoop(evs, 1, AggStart) IN RescaledScore(st.total, st.count)

\* C1: for every list of evaluations (any length, any label, any confidence,
\* also outside [0,1], NaN or infinite) the score of the returned verdict
\* is within [0,1] (0..1000 thousandths).
C1_ScoreWithinUnitInterval ==
    agg_pc = "done" => (0 <= verdict.score /\ verdict.score <= 1000)

\* C1 witness: aggregation has run on a list whose unclamped score is above 1
C1_Witness_ClampedAbove ==
    /\ agg_pc = "done" /\ evaluations # <<>>
    /\ FLess(FOne, UnclampedScore(evaluations))
    /\ verdict.score = 1000

\* C2: for every list of evaluations and every permutation of it, the two
\* verdicts have the same aggregate_support and the same score.
C2_OrderIndependent ==
    agg_pc = "done" =>
        \A p \in Permutations(1..Len(evaluations)) :
            LET v == AggregateEvaluations(claim_id, Permuted(evaluations, p))
            IN  /\ v.aggregate_support = verdict.aggregate_support
                /\ v.score = verdict.score

\* C3: with an empty evaluation list the verdict is "insufficient", score
\* 0.0, no best evidence and an empty notes list, for every claim id.
C3_EmptyListInsufficient ==
    (agg_pc = "done" /\ evaluations = <<>>) =>
        /\ verdict.claim_id = claim_id
        /\ verdict.aggregate_support = "insufficient"
        /\ verdict.score = 0
        /\ verdict.best_evidence = NoBest
        /\ verdict.notes = <<>>

\* C3 witness: aggregation has run on the empty list
C3_Witness_EmptyAggregated ==
    agg_pc = "done" /\ evaluations = <<>> /\ verdict.aggregate_support = "insufficient"

\* the number of positions of seq that hold x
Count(seq, x) == Cardinality({i \in 1..Len(seq) : seq[i] = x})

\* the run has claims and is past the limiting of the claim list
PastLimit == pc \in {"verify", "collect", "aggregate"} \/ (pc = "done" /\ all_claims # <<>>)

\* the tasks submitted for the claim with this id
TasksOf(id) == {t \in 1..Len(futures) : futures[t].cid = id}

\* C4: in every run that reaches aggregation there is exactly one verdict per
\* limited claim, the i-th verdict carrying the id of the i-th limited claim,
\* whatever the order in which the evaluation tasks completed.
C4_VerdictsFollowClaimOrder ==
    pc \in {"aggregate", "done"} =>
        /\ Len(verified_results) <= Len(limited_claims)
        /\ \A i \in 1..Len(verified_results) :
              verified_results[i].claim_id = limited_claims[i].id
        /\ pc = "done" => Len(verified_results) = Len(limited_claims)

\* C4 witness: a finished run with two limited claims in which the second
\* task of the first claim was yielded before its first task
C4_Witness_OutOfOrderCompletion ==
    /\ pc = "done" /\ Len(limited_claims) = 2 /\ Len(verified_results) = 2
    /\ Len(GroupedGet(grouped, limited_claims[1].id)) = 2
    /\ GroupedGet(grouped, limited_claims[1].id)[1].url = SourceUrl(limited_claims[1].id, 2)

\* C5: with no search credential, or when the top-level search fails, the run
\* raises before any page fetch, model call, claim extraction, or write of the
\* report or the provenance file, and the search was called once only.
C5_FatalSearchAbortsFirst ==
    /\ top_search_failed =>
          /\ pc = "raised" /\ search_calls = 1
          /\ fetch_calls = 0 /\ llm_calls = 0 /\ extract_calls = 0 /\ eval_calls = 0
          /\ articles = <<>> /\ all_claims = <<>> /\ futures = <<>>
          /\ provenance = NoFile /\ report = NoFile /\ pdf_path = ""
    /\ (~credential /\ pc \notin {"start", "search", "interrupted"}) => top_search_failed

\* C5 witness: the run has raised for want of a credential
C5_Witness_NoCredentialRaised ==
    pc = "raised" /\ ~credential /\ top_search_failed

\* C6: when the verification search of a limited claim fails it is not
\* retried, exactly one warning names the claim, no evaluation task is
\* scheduled for it, its verdict is "insufficient" with score 0.0, and every
\* other claim is searched once, has each of its tasks evaluated and gets the
\* verdict of its own evaluations.
C6_ClaimSearchFailureIsolated ==
    /\ \A c \in failed_searches :
          /\ Count(claim_searches, c) = 1
          /\ Cardinality({k \in 1..Len(warnings) : warnings[k].claim = c}) = 1
          /\ Count(warnings, Warning("claim_search", c)) = 1
          /\ TasksOf(c) = {}
          /\ GroupedGet(grouped, c) = <<>>
          /\ \A i \in 1..Len(verified_results) :
                verified_results[i].claim_id = c =>
                    /\ verified_results[i].aggregate_support = "insufficient"
                    /\ verified_results[i].score = 0
          /\ pc = "done" => \E i \in 1..Len(verified_results) :
                               verified_results[i].claim_id = c
    /\ \A i \in 1..Len(limited_claims) :
          LET id == limited_claims[i].id
          IN  id \notin failed_searches =>
                /\ pc \in {"collect", "aggregate", "done"} => Count(claim_searches, id) = 1
                /\ pc \in {"aggregate", "done"} =>
                      /\ Len(GroupedGet(grouped, id)) = Cardinality(TasksOf(id))
                      /\ \A j \in 1..Len(verified_results) :
                            verified_results[j].claim_id = id =>
                                verified_results[j] =
                                    AggregateEvaluations(id, GroupedGet(grouped, id))

\* C6 witness: a finished run in which the search of the first of two limited
\* claims failed and the second claim was found supported
C6_Witness_OneSearchFailed ==
    /\ pc = "done" /\ Len(limited_claims) = 2
    /\ failed_searches = {limited_claims[1].id}
    /\ verified_results[1].aggregate_support = "insufficient"
    /\ verified_results[2].aggregate_support = "supports"

\* C7: when the fetch of a top-level hit fails the run does not abort, the
\* article is kept in the sources list with empty text, the extractor is not
\* called for it, and no warning about the fetch is added: the only warnings
\* of the pipeline stages are those of failed claim searches.
C7_FetchFailureSilent ==
    /\ \A i \in fetch_failed :
          /\ pc # "raised"
          /\ i <= Len(articles)
          /\ articles[i] = [url |-> hits[i].url, text |-> ""]
          /\ provenance.written =>
                (Len(provenance.sources) = Len(hits) /\ provenance.sources[i].text = "")
    /\ extract_calls = Cardinality({i \in 1..(art_idx - 1) : articles[i].text # ""})
                         + (IF pc = "extract_error" THEN 1 ELSE 0)
    /\ \A k \in 1..Len(warnings) :
          warnings[k].kind \in {"no_internet", "claim_search", "provenance"}
    /\ Cardinality({k \in 1..Len(warnings) : warnings[k].kind = "claim_search"})
          = Cardinality(failed_searches)
    /\ pc \notin {"done", "assembly_error", "build_error"} =>
          \A k \in 1..Len(warnings) : warnings[k].kind # "provenance"

\* C7 witness: a finished run whose first hit could not be fetched and whose
\* second hit gave a claim that is in the report
C7_Witness_FailedFetchRunCompletes ==
    /\ pc = "done" /\ fetch_failed = {1} /\ Len(hits) = 2
    /\ report.written /\ report.kind = "full" /\ Len(report.findings) >= 1

\* min(claim_limit, number of extracted claims)
NumLimited == IF claim_limit < Len(all_claims) THEN claim_limit ELSE Len(all_claims)

\* C8: for a non-negative claim_limit exactly the first min(claim_limit, n)
\* of the n extracted claims proceed to verification, and a claim beyond the
\* limit is never searched, never evaluated, and is neither in the Findings of
\* the report nor in the provenance record.
C8_OnlyLimitedClaimsProceed ==
    /\ PastLimit => limited_claims = [i \in 1..NumLimited |-> all_claims[i]]
    /\ (PastLimit /\ pc # "verify") =>
          claim_searches = [i \in 1..NumLimited |-> all_claims[i].id]
    /\ \A i \in (claim_limit + 1)..Len(all_claims) :
          LET c == all_claims[i]
          IN  /\ Count(claim_searches, c.id) = 0
              /\ TasksOf(c.id) = {}
              /\ c.id \notin DOMAIN grouped
              /\ \A j \in 1..Len(verified_results) : verified_results[j].claim_id # c.id
              /\ report.written =>
                    \A j \in 1..Len(report.findings) : report.findings[j].claim # c.claim
              /\ provenance.written =>
                    /\ \A j \in 1..Len(provenance.claims) : provenance.claims[j] # c
                    /\ \A j \in 1..Len(provenance.verified) :
                          provenance.verified[j].claim_id # c.id

\* C8 witness: a finished run that extracted two claims under a limit of one
\* and wrote the full report and the provenance record
C8_Witness_ClaimDropped ==
    /\ pc = "done" /\ claim_limit = 1 /\ Len(all_claims) = 2
    /\ Len(claim_searches) = 1
    /\ report.written /\ report.kind = "full" /\ Len(report.findings) = 1
    /\ provenance.written

\* C9: the merged claims carry the ids 1, 2, ..., n in extraction order
\* (articles in hit order, claims in extractor order), whatever ids the
\* extractor supplied, so no two claims of a run share an id.
C9_IdsAssignedInOrder ==
    /\ Len(extracted_ids) = Len(all_claims)
    /\ cid = Len(all_claims) + 1
    /\ \A i \in 1..Len(all_claims) : all_claims[i].id = i
    /\ \A i, j \in 1..Len(all_claims) :
          /\ i # j => all_claims[i].id # all_claims[j].id
          /\ i < j => \/ all_claims[i].span[1] < all_claims[j].span[1]
                      \/ /\ all_claims[i].span[1] = all_claims[j].span[1]
                         /\ all_claims[i].span[2] < all_claims[j].span[2]

\* C9 witness: two articles each gave one claim that its extractor numbered 1
C9_Witness_ExtractorIdsCollide ==
    /\ Len(all_claims) = 2 /\ extracted_ids = <<1, 1>>
    /\ all_claims[1].span[1] # all_claims[2].span[1]

\* a successful response was returned
LlmSucceeded == llm_pc = "returned" /\ ~StartsWith(llm_result, "[LLM_ERROR]")

\* what holds of the retry loop at every step
C10_RetryState ==
    /\ llm_pc # "raised"
    /\ model_calls <= MAX_LLM_RETRIES
    /\ attempt <= MAX_LLM_RETRIES
    /\ Len(llm_errors) = attempt
    \* a failed attempt k followed by another attempt was followed by its sleep
    /\ \A k \in 0..(Len(llm_errors) - 1) :
          (k + 1 < Len(llm_errors) \/ llm_pc = "call" \/ LlmSucceeded)
             => (Len(sleeps) >= k + 1 /\ sleeps[k + 1] = INITIAL_BACKOFF * (2 ^ k))
    /\ llm_pc = "returned" =>
          \/ /\ LlmSucceeded
             /\ llm_result \in LlmResponses
             /\ Len(llm_errors) < MAX_LLM_RETRIES
             /\ model_calls <= Len(llm_errors) + 1
          \/ /\ Len(llm_errors) = MAX_LLM_RETRIES
             /\ StartsWith(llm_result, "[LLM_ERROR]")
             /\ Contains(llm_result, llm_errors[MAX_LLM_RETRIES])

\* C10: llm_call_with_retry never raises and terminates; it invokes the
\* model at most MAX_LLM_RETRIES times, returns the first successful response
\* with no further attempt, sleeps INITIAL_BACKOFF * 2^k between failed
\* attempt k and the next attempt, and when every attempt failed returns a
\* string that starts with "[LLM_ERROR]" and embeds the last error.
C10_RetryBoundedAndTotal == [](C10_RetryState) /\ <>(llm_pc = "returned")

\* C10 witness: all MAX_LLM_RETRIES attempts failed and the sentinel was returned
C10_Witness_Exhausted ==
    /\ llm_pc = "returned" /\ Len(llm_errors) = MAX_LLM_RETRIES
    /\ model_calls = MAX_LLM_RETRIES
    /\ StartsWith(llm_result, "[LLM_ERROR] ")

\* the pipeline has ended with an exception raised after the top-level search
PipelineErrors ==
    {"fetch_error", "extract_error", "makedirs_error", "assembly_error", "build_error"}

\* C11: once the top-level search has returned, the run never raises and
\* eventually returns a document path, whatever fetch, claim-search, model
\* or rendering failures and whatever malformed model output come after.
C11_ReturnsPathAfterSearch ==
    /\ [](pc \notin PipelineErrors)
    /\ []((pc \notin {"start", "search", "raised"}) => <>(pc = "done" /\ pdf_path # ""))

\* C12: generate_pdf_report never fails the run: when a step of the document
\* assembly or the document build throws, the fallback document is produced
\* and the path is returned.
C12_RenderNeverFails ==
    /\ pc \notin {"assembly_error", "build_error"}
    /\ pc = "done" => (report.written /\ pdf_path # "")

\* C13: when no claim was extracted, no claim search and no evaluation is
\* made, the report states that no verifiable claims were found, the
\* provenance has empty claims and verdicts, and the path is returned.
C13_NoClaimsRunSucceeds ==
    (all_claims = <<>> /\ pc \in {"no_claims", "done", "makedirs_error",
                                  "assembly_error", "build_error"}) =>
        /\ claim_searches = <<>> /\ futures = <<>> /\ eval_calls = 0
        /\ pc \in {"no_claims", "done"}
        /\ pc = "done" =>
              /\ report.written /\ report.no_claims /\ pdf_path # ""
              /\ provenance.written =>
                    (provenance.claims = <<>> /\ provenance.verified = <<>>)

\* the note holds a block that json.loads reads as an object with the keys
\* support, confidence and reason
HasStructuredBlock(n) ==
    LET s0 == Strip(n)
        i  == FirstIndex(s0, "{")
        j  == LastIndex(s0, "}")
        bl == IF i > 0 /\ j > i THEN JsonLoads(SubSeq(s0, i, j)) ELSE JFail
    IN  /\ bl.ok
        /\ \A k \in {"support", "confidence", "reason"} : JGet(bl.obj, k).t # "missing"

HasQuotedKey(s) ==
    \E k \in {"support", "confidence", "reason", "evidence", "k"} :
        Contains(s, "\"" \o k \o "\"")

\* C14: for every note that holds a structured block with support, confidence
\* and reason fields, the string _sanitize_note returns holds no brace and no
\* quoted key
C14_NoBracesNoQuotedKeys ==
    (note_pc = "returned" /\ HasStructuredBlock(note_in))
        => /\ ~Contains(note_result, "{")
           /\ ~Contains(note_result, "}")
           /\ ~HasQuotedKey(note_result)

\* C15: for every input that holds "%PDF-" or "<</Filter", _sanitize_note
\* returns exactly the placeholder
C15_BinaryGivesPlaceholder ==
    (note_pc = "returned" /\ (Contains(note_in, "%PDF-") \/ Contains(note_in, "<</Filter")))
        => note_result = BinaryPlaceholder

\* the number written right before the first "%" of the text, "" when none
StatedPercent(o) ==
    LET p == FirstIndex(o, "%")
        A == {a \in 1..(p - 1) :
                \A i \in a..(p - 1) : CharAt(o, i) \in DigitChars \cup {"."}}
    IN  IF A = {} THEN "" ELSE SubSeq(o, CHOOSE a \in A : \A b \in A : a <= b, p - 1)

IsFreeText(o) == o # "" /\ ~JsonLoads(o).ok

\* C17: of a free-text response holding "supports" and no form of
\* "contradict" that states its confidence as a percentage N > 1, the
\* Evaluation has support "supports" and confidence N/100 clamped to [0,1];
\* a text holding a form of "contradict" gives support "contradicts"
C17_FreeTextPercent ==
    (eval_pc = "returned" /\ IsFreeText(out)) =>
        LET low == Lower(out)
            lit == StatedPercent(out)
            n   == FloatOfMilli(DecimalMilli(lit))
        IN  /\ Contains(low, "contradict") => normalized.support = "contradicts"
            /\ (/\ Contains(low, "supports") /\ ~Contains(low, "contradict")
                /\ IsDecimal(lit) /\ FLess(FOne, n))
                  => /\ normalized.support = "supports"
                     /\ normalized.confidence.f = Clamp01(FDivInt(n, 100))

\* C18: every Evaluation has a confidence within [0,1], and a structured
\* response without the field gives 0.0
C18_ConfidenceInUnitInterval ==
    eval_pc = "returned" =>
        LET c == normalized.confidence.f
            j == JsonLoads(out)
        IN  /\ c.k = "fin" /\ ~FLess(c, FZero) /\ ~FLess(FOne, c)
            /\ (j.ok /\ JGet(j.obj, "confidence").t = "missing") => c = FZero

SupportLabels == {"supports", "contradicts", "neutral", "uncertain"}

\* C19: every Evaluation has a support among supports, contradicts, neutral,
\* uncertain; a structured response whose support is another string or null
\* gives "uncertain"
C19_SupportIsALabel ==
    eval_pc = "returned" =>
        LET j == JsonLoads(out)
            v == JGet(j.obj, "support")
        IN  /\ normalized.support \in SupportLabels
            /\ (j.ok /\ v.t # "missing" /\ (v.t # "str" \/ v.s \notin SupportLabels))
                  => normalized.support = "uncertain"

\* the evidence of the evaluation of this source is text the model produced
EvidenceFromModel(url) ==
    LET j == JsonLoads(VerifierResponse(RankOf(url)))
    IN  j.ok /\ JTruthy(JGet(j.obj, "evidence"))

\* C16: every text of the model placed in the report has passed through
\* _sanitize_note: the notes of a finding, and the excerpt of its best
\* evidence when that excerpt is the evidence field of a structured judgment
C16_ReportTextSanitized ==
    (report.written /\ report.kind = "full") =>
        \A i \in 1..Len(report.findings) :
            LET f  == report.findings[i]
                be == f.verdict.best_evidence
            IN  /\ f.notes = NoteItems(f.verdict.notes, 1)
                /\ (be.present /\ be.url # "" /\ EvidenceFromModel(be.url))
                      => f.excerpt = PlaceExcerpt(SanitizeNote(be.excerpt))

\* C20: fetch_page_text never raises; when the request fails the text is empty
\* and the metadata carries the error; what is returned of a page does not
\* depend on the snapshot
C20_FetchNeverRaises ==
    /\ fetch_pc # "raised"
    /\ (fetch_pc = "returned" /\ html = "")
          => fetch_result.text = "" /\ fetch_result.error # ""
    /\ (fetch_pc = "returned" /\ html # "")
          => fetch_result \in {MainResult(fetch_url, html), FallbackResult(fetch_url, html)}

\* the states in which generate_pdf_report has been entered and left
RenderStates == {"done", "makedirs_error", "assembly_error", "build_error"}

\* every submitted evaluation task has completed and has been yielded
AllTasksCompleted ==
    \A t \in 1..Len(futures) :
        futures[t].st \in {"done", "raised"} /\ futures[t].collected

\* C21: the provenance file and the report document are written only in the
\* render stage, after every evaluation task has completed and every verdict
\* has been aggregated; a run aborted before the render stage (fatal search
\* failure, interrupt) has written neither file
C21_FilesWrittenOnlyAtRender ==
    /\ (provenance.written \/ report.written) =>
          /\ pc \in RenderStates
          /\ AllTasksCompleted
          /\ Len(verified_results) = Len(limited_claims)
    /\ (pc \notin RenderStates) => (provenance = NoFile /\ report = NoFile)

\* a run interrupted in the verification stage, one evaluation finished and
\* another task still running, has no file
C21_Witness_InterruptedMidVerification ==
    /\ pc = "interrupted"
    /\ \E t \in 1..Len(futures) : futures[t].st = "done"
    /\ \E t \in 1..Len(futures) : futures[t].st = "running"
    /\ provenance = NoFile /\ report = NoFile

\* twice the weight the scoring rule gives a label: supports +1, neutral
\* +0.5, contradicts -1, uncertain and every other label 0
TwiceWeight(s) ==
    IF s = "supports" THEN 2
    ELSE IF s = "neutral" THEN 1
    ELSE IF s = "contradicts" THEN 0 - 2
    ELSE 0

\* the confidence of an evaluation in thousandths, when it is a finite number
\* (a missing or non-numeric confidence counts as 0.0)
MilliConf(ev) == IF ev.confidence.t = "num" THEN ev.confidence.v ELSE 0

\* the evaluation has a finite confidence
FiniteConf(ev) == ev.confidence.t \in {"num", "none", "text"}

\* the scoring rule has a value on the list: every evaluation has a finite
\* confidence or a label of weight 0 (whose term is 0 whatever the confidence)
RuleDefined(evs) ==
    \A i \in 1..Len(evs) : FiniteConf(evs[i]) \/ TwiceWeight(SupportOf(evs[i])) = 0

\* the sum of weight * confidence over the list, in units of 1/2000, computed
\* in the integers
RECURSIVE TwiceWeightedSum(_, _)
TwiceWeightedSum(evs, i) ==
    IF i > Len(evs) THEN 0
    ELSE TwiceWeight(SupportOf(evs[i])) * MilliConf(evs[i]) + TwiceWeightedSum(evs, i + 1)

\* clamp((mean + 1) / 2, 0, 1) of a list of n evaluations, in units of
\* 1/(4000 n), computed in the integers
RuleScore(evs) ==
    LET n == Len(evs)
        x == TwiceWeightedSum(evs, 1) + 2000 * n
    IN  IF x < 0 THEN 0 ELSE IF x > 4000 * n THEN 4000 * n ELSE x

\* C22: for every non-empty list of evaluations the score of the verdict
\* equals, to the three decimals the verdict reports, clamp((mean of
\* w(support) * confidence + 1) / 2, 0, 1) with w(supports) = 1, w(neutral) =
\* 0.5, w(contradicts) = -1, w(uncertain) = 0 and w(other) = 0; when every
\* evaluation is contradicts at confidence 1.0 the score is 0.0 and the label
\* is "contradicts".
C22_ScoreFollowsRule ==
    (agg_pc = "done" /\ evaluations # <<>> /\ RuleDefined(evaluations)) =>
        LET n == Len(evaluations)
            d == verdict.score * 4 * n - RuleScore(evaluations)
        IN  /\ d <= 2 * n /\ 0 - d <= 2 * n
            /\ (\A i \in 1..n : /\ evaluations[i].support = "contradicts"
                                /\ evaluations[i].confidence = [t |-> "num", v |-> 1000])
                  => (verdict.score = 0 /\ verdict.aggregate_support = "contradicts")

\* the label the thresholds give a reported score, in thousandths
LabelOfReported(score) ==
    IF score > 660 THEN "supports" ELSE IF score < 330 THEN "contradicts" ELSE "mixed"

\* C23: for every verdict produced from at least one evaluation, the label
\* agrees with the score the verdict reports: "supports" exactly when the
\* score is > 0.66, "contradicts" exactly when it is < 0.33, "mixed" otherwise.
C23_LabelAgreesWithReportedScore ==
    (agg_pc = "done" /\ evaluations # <<>>) =>
        verdict.aggregate_support = LabelOfReported(verdict.score)

\* twice the signed score of evaluation i, in thousandths, computed in the
\* integers
TwiceSigned(evs, i) == TwiceWeight(SupportOf(evs[i])) * MilliConf(evs[i])

\* the first position of the list that holds the maximum signed score
FirstMaximum(evs) ==
    CHOOSE i \in 1..Len(evs) :
        /\ \A j \in 1..Len(evs) : TwiceSigned(evs, j) <= TwiceSigned(evs, i)
        /\ \A j \in 1..(i - 1) : TwiceSigned(evs, j) < TwiceSigned(evs, i)

\* C24: for every non-empty list of evaluations best_evidence is present and
\* is built from the first evaluation in list order whose signed score equals
\* the maximum signed score of the list: its url, evidence and confidence.
C24_BestEvidenceIsFirstMaximum ==
    (agg_pc = "done" /\ evaluations # <<>>) =>
        /\ verdict.best_evidence.present
        /\ (\A i \in 1..Len(evaluations) : FiniteConf(evaluations[i])) =>
              LET ev == evaluations[FirstMaximum(evaluations)]
              IN  /\ verdict.best_evidence.url = ev.url
                  /\ verdict.best_evidence.excerpt = ev.evidence
                  /\ verdict.best_evidence.confidence = ConfOf(ev)

\* what an evaluation contributes to the notes before clipping: its sanitized
\* note or reason, or "<label> (confidence X.XX)" when it has neither, trimmed
Contribution(ev) ==
    Strip(IF NoteOf(ev) # "" THEN SanitizeNote(NoteOf(ev))
          ELSE SupportOf(ev) \o " (confidence " \o Format2f(ConfOf(ev)) \o ")")

\* the k-th element of a finite set of integers, in increasing order
RECURSIVE KthSmallest(_, _)
KthSmallest(S, k) ==
    LET m == CHOOSE x \in S : \A y \in S : x <= y
    IN  IF k = 1 THEN m ELSE KthSmallest(S \ {m}, k - 1)

\* a note as the verdict keeps it: at most NoteClip characters and the mark
ClippedNote(t) == IF Len(t) <= NoteClip THEN t ELSE Prefix(t, NoteClip) \o " ..."

\* C25: for every list of evaluations the notes of the verdict have at most
\* 6 entries, contain no two equal strings, have every entry within the
\* per-note length bound (400 characters and the truncation mark), and list
\* the deduplicated sanitized notes in first-seen order of the evaluations
\* (an evaluation without note or reason contributes
\* "<label> (confidence X.XX)").
C25_NotesBoundedDistinctOrdered ==
    agg_pc = "done" =>
        LET c     == [i \in 1..Len(evaluations) |-> Contribution(evaluations[i])]
            first == {i \in 1..Len(c) : c[i] # "" /\ \A j \in 1..(i - 1) : c[j] # c[i]}
            n     == IF Cardinality(first) < MaxNotes THEN Cardinality(first) ELSE MaxNotes
        IN  /\ Len(verdict.notes) <= MaxNotes
            /\ \A k \in 1..Len(verdict.notes) : Len(verdict.notes[k]) <= NoteClip + 4
            /\ Len(verdict.notes) = n
            /\ \A k \in 1..n : verdict.notes[k] = ClippedNote(c[KthSmallest(first, k)])
            /\ \A k, l \in 1..Len(verdict.notes) :
                  k # l => verdict.notes[k] # verdict.notes[l]

\* the with block of the pool has been left: the verification stage has ended
VerificationEnded == pc \in ({"aggregate"} \cup RenderStates) /\ limited_claims # <<>>

\* the entry of the accumulator is the evaluation of task t: the task's
\* result under the task's url, or uncertain at 0.0 when the task raised
RecordsTask(e, t) ==
    /\ e.url = futures[t].url
    /\ IF futures[t].st = "raised"
       THEN e.support = "uncertain" /\ e.confidence = [t |-> "num", v |-> 0]
       ELSE futures[t].st = "done" /\ e = [futures[t].res EXCEPT !.url = futures[t].url]

\* C26: under every interleaving of worker completions, when the verification
\* stage ends the per-claim accumulator holds, for each limited claim,
\* exactly one evaluation for each (claim, source) task submitted for it,
\* none lost, none duplicated, none attributed to another claim; each
\* evaluation's url is its task's source url, and a task that raised is
\* recorded as an evaluation with support "uncertain" and confidence 0.0.
C26_AccumulatorHoldsEveryTaskOnce ==
    VerificationEnded =>
        /\ DOMAIN grouped \subseteq {limited_claims[i].id : i \in 1..Len(limited_claims)}
        /\ \A i \in 1..Len(limited_claims) :
              LET id == limited_claims[i].id
                  g  == GroupedGet(grouped, id)
              IN  /\ Len(g) = Cardinality(TasksOf(id))
                  /\ \A t \in TasksOf(id) :
                        /\ Cardinality({k \in 1..Len(g) : g[k].url = futures[t].url}) = 1
                        /\ \A k \in 1..Len(g) :
                              g[k].url = futures[t].url => RecordsTask(g[k], t)
                  /\ \A k \in 1..Len(g) : \E t \in TasksOf(id) : g[k].url = futures[t].url

\* the stage has ended with two claims that both had tasks, one task raised,
\* and a claim's second source was collected before its first
C26_Witness_RaisedAndOutOfOrder ==
    /\ pc = "aggregate"
    /\ Len(limited_claims) = 2
    /\ \A i \in 1..2 : TasksOf(limited_claims[i].id) # {}
    /\ \E t \in 1..Len(futures) : futures[t].st = "raised"
    /\ \E i \in 1..2 :
          LET id == limited_claims[i].id
          IN  /\ Len(GroupedGet(grouped, id)) = 2
              /\ GroupedGet(grouped, id)[1].url = SourceUrl(id, 2)

\* the place of a position of the main thread in the order of the stages:
\* search, fetch-all, extract-all, limit-claims, verify-all, aggregate-all,
\* render; a run that has ended is past them all
StageOf(p) ==
    IF p \in {"start", "search"} THEN 1
    ELSE IF p = "fetch" THEN 2
    ELSE IF p = "extract" THEN 3
    ELSE IF p \in {"limit", "no_claims"} THEN 4
    ELSE IF p \in {"verify", "collect"} THEN 5
    ELSE IF p = "aggregate" THEN 6
    ELSE 7

\* C27: in every run at most max(1, workers) evaluator calls execute at the
\* same time; no evaluator call starts before the limited claim list is
\* final; the aggregation of any claim starts only after every evaluation
\* task of the run has completed; and the stages search, fetch-all,
\* extract-all, limit-claims, verify-all, aggregate-all, render never overlap
\* or reorder.
C27_BoundedPoolOrderedStages ==
    /\ [](/\ Cardinality(Running) <= (IF workers < 1 THEN 1 ELSE workers)
          /\ (futures # <<>> \/ eval_calls > 0) => StageOf(pc) >= 5
          /\ (verified_results # <<>> \/ StageOf(pc) = 6) => AllTasksCompleted
          /\ (StageOf(pc) < 5) => (limited_claims = <<>> \/ pc = "limit")
          /\ (StageOf(pc) < 3) => (all_claims = <<>> /\ extract_calls = 0))
    /\ [][/\ StageOf(pc') >= StageOf(pc)
          /\ (eval_calls' # eval_calls) =>
                (StageOf(pc) = 5 /\ limited_claims # <<>> /\ limited_claims' = limited_claims)
          /\ (StageOf(pc) >= 5) => (limited_claims' = limited_claims)
          /\ (verified_results' # verified_results) =>
                (pc = "aggregate" /\ AllTasksCompleted /\ futures' = futures
                 /\ grouped' = grouped)
          /\ (report' # report \/ provenance' # provenance) =>
                (StageOf(pc) \in {4, 6} /\ verified_results' = verified_results)]_vars

\* the pool of two workers is full and a third task waits in its queue
C27_Witness_PoolFullTaskQueued ==
    /\ workers = 2 /\ Cardinality(Running) = 2
    /\ \E t \in 1..Len(futures) : futures[t].st = "queued"
    /\ pc \in {"verify", "collect"}

\* C28: a sequence of failures whose text indicates a rate limit is handled
\* as the same sequence of generic failures is: as many model attempts, the
\* same backoff sleeps (one between consecutive attempts, none after the
\* final attempt) and a sentinel result of the same form.
C28_RateLimitHandledAsGeneric ==
    /\ Len(sleeps) = (IF Len(llm_errors) < MAX_LLM_RETRIES THEN Len(llm_errors)
                      ELSE MAX_LLM_RETRIES - 1)
    /\ \A k \in 1..Len(sleeps) : sleeps[k] = BackoffWait(k - 1)
    /\ (llm_pc = "returned" /\ Len(llm_errors) = MAX_LLM_RETRIES) =>
          llm_result = "[LLM_ERROR] " \o last_exc \o "\nTraceback (most recent call last)"

\* C29: when the model call returned the "[LLM_ERROR]" sentinel the evaluator
\* treats it as no usable output: whatever the error text holds, the
\* Evaluation has support "uncertain" and confidence 0.0, as for an empty
\* response.
C29_SentinelIsNoOutput ==
    (eval_pc = "returned" /\ StartsWith(out, "[LLM_ERROR]")) =>
        /\ normalized.support = "uncertain"
        /\ normalized.confidence = PyFloatValue(FZero)
        /\ normalized.support = EvaluateClaimVsExcerpt(excerpt, EvalUrl, "").support
        /\ normalized.confidence = EvaluateClaimVsExcerpt(excerpt, EvalUrl, "").confidence

\* the evaluation carries no signal: it is uncertain, has an unknown label,
\* or has confidence 0
NoSignal(ev) ==
    \/ TwiceWeight(SupportOf(ev)) = 0
    \/ (FiniteConf(ev) /\ MilliConf(ev) = 0)

\* C30: a claim whose evaluations all carry no signal gets a verdict with
\* score 0.5 and label "mixed", never "insufficient"; "insufficient" is
\* returned if and only if the claim has zero evaluations.
C30_NoSignalIsMixed ==
    agg_pc = "done" =>
        /\ (verdict.aggregate_support = "insufficient") <=> (evaluations = <<>>)
        /\ (evaluations # <<>> /\ \A i \in 1..Len(evaluations) : NoSignal(evaluations[i]))
              => (verdict.score = 500 /\ verdict.aggregate_support = "mixed")

====
